---- MODULE Spec2Model ----
(***************************************************************************)
(* A model of the tag grammar of hls_m3u8 (src/src/tag.rs): the parsers    *)
(* (FromStr) and serializers (Display) of the playlist tags, the dispatch  *)
(* of Tag::from_str and the classification Tag::kind.                      *)
(*                                                                         *)
(* A line is a string.  One behaviour takes one input line, parses it with *)
(* Tag::from_str, serializes the parsed tag, parses the serialized line    *)
(* again, and parses variations of the input (an unknown attribute         *)
(* inserted).  The attribute tokenizer and the value grammar live in       *)
(* modules of the crate that are outside tag.rs (attribute, string,        *)
(* version); they are modelled from their description in the               *)
(* specification, sections 4.1 and 4.2.                                    *)
(***************************************************************************)
EXTENDS Integers, Sequences, FiniteSets, TLC

VARIABLES
    variant,    \* ghost: the variant whose prefix the input line was built with
    body,       \* ghost: the items (attribute pairs, or one scalar) after the prefix
    line,       \* the input line
    pc,         \* "input", "parsed", "serialized", "reparsed", "inserted", "observed", "reordered"
    res,        \* Tag::from_str(line)
    out,        \* the serialization of res.tag
    res2,       \* Tag::from_str(out)
    alt,        \* a variation of the line (a pair inserted, two pairs exchanged) and its parse
    obs         \* the method called on the parsed tag, and what it returned

vars == <<variant, body, line, pc, res, out, res2, alt, obs>>

(***************************************************************************)
(* Bounds of the model.                                                    *)
(***************************************************************************)
\* The largest number of attribute pairs of an input line.
MaxAttrs == 5

(***************************************************************************)
(* Strings.                                                                *)
(***************************************************************************)
Char(s, i) == SubSeq(s, i, i)

\* str::starts_with
StartsWith(s, p) == Len(s) >= Len(p) /\ SubSeq(s, 1, Len(p)) = p

\* str::split_at(n).1
SplitAt1(s, n) == SubSeq(s, n + 1, Len(s))

\* The first index >= from at which s holds the character c, 0 when none.
RECURSIVE IndexOf(_, _, _)
IndexOf(s, c, from) ==
    IF from > Len(s) THEN 0
    ELSE IF Char(s, from) = c THEN from
    ELSE IndexOf(s, c, from + 1)

Contains(s, c) == IndexOf(s, c, 1) # 0

RECURSIVE JoinFrom(_, _, _)
JoinFrom(items, sep, i) ==
    IF i > Len(items) THEN ""
    ELSE IF i = Len(items) THEN items[i]
    ELSE items[i] \o sep \o JoinFrom(items, sep, i + 1)

Join(items, sep) == JoinFrom(items, sep, 1)

(***************************************************************************)
(* Results and options.                                                    *)
(***************************************************************************)
\* Err(ErrorKind::InvalidInput): the only error kind tag.rs produces.
Err == [ok |-> FALSE, kind |-> "InvalidInput"]
Ok(v) == [ok |-> TRUE, v |-> v]

None == <<>>
Some(v) == <<v>>
IsSome(o) == o # None
IsNone(o) == o = None
Unwrap(o) == o[1]
UnwrapOr(o, d) == IF o = None THEN d ELSE o[1]

(***************************************************************************)
(* Value grammar (specification 4.1).                                      *)
(***************************************************************************)
DoubleQuote == "\""

\* QuotedString::from_str: starts and ends with a double quote, no inner
\* double quote or control character; the unquoted content is stored.
QuotedStringFromStr(s) ==
    IF Len(s) >= 2 /\ Char(s, 1) = DoubleQuote /\ Char(s, Len(s)) = DoubleQuote
    THEN LET inner == SubSeq(s, 2, Len(s) - 1)
         IN  IF Contains(inner, DoubleQuote) \/ Contains(inner, "\n")
                \/ Contains(inner, "\r") \/ Contains(inner, "\t")
             THEN Err ELSE Ok(inner)
    ELSE Err

QuotedStringFmt(v) == DoubleQuote \o v \o DoubleQuote

DecDigits == "0123456789"
DigitVal(c) == IndexOf(DecDigits, c, 1) - 1

RECURSIVE AllDigits(_, _)
AllDigits(s, i) == i > Len(s) \/ (DigitVal(Char(s, i)) >= 0 /\ AllDigits(s, i + 1))

RECURSIVE DigitsValue(_, _, _)
DigitsValue(s, i, acc) ==
    IF i > Len(s) THEN acc ELSE DigitsValue(s, i + 1, acc * 10 + DigitVal(Char(s, i)))

\* DecimalInteger::from_str: an unsigned decimal integer, digits only.
DecimalIntegerFromStr(s) ==
    IF Len(s) >= 1 /\ AllDigits(s, 1) THEN Ok(DigitsValue(s, 1, 0)) ELSE Err

DecimalIntegerFmt(n) == ToString(n)

UpperHex == "0123456789ABCDEF"
LowerHex == "0123456789abcdef"
HexVal(c) ==
    IF Contains(UpperHex, c) THEN IndexOf(UpperHex, c, 1) - 1
    ELSE IndexOf(LowerHex, c, 1) - 1

RECURSIVE AllHex(_, _)
AllHex(s, i) == i > Len(s) \/ (HexVal(Char(s, i)) >= 0 /\ AllHex(s, i + 1))

\* HexadecimalSequence::from_str: 0x or 0X, then an even number of hex digits
\* (either case), decoded to bytes.
HexadecimalSequenceFromStr(s) ==
    IF (StartsWith(s, "0x") \/ StartsWith(s, "0X"))
       /\ (Len(s) - 2) % 2 = 0 /\ AllHex(s, 3)
    THEN Ok([i \in 1..((Len(s) - 2) \div 2) |->
                16 * HexVal(Char(s, 2 * i + 1)) + HexVal(Char(s, 2 * i + 2))])
    ELSE Err

RECURSIVE HexBytesFmt(_, _)
HexBytesFmt(bytes, i) ==
    IF i > Len(bytes) THEN ""
    ELSE Char(UpperHex, (bytes[i] \div 16) + 1) \o Char(UpperHex, (bytes[i] % 16) + 1)
         \o HexBytesFmt(bytes, i + 1)

\* HexadecimalSequence as Display: 0x and the bytes in upper-case hex.
HexadecimalSequenceFmt(bytes) == "0x" \o HexBytesFmt(bytes, 1)

(***************************************************************************)
(* Decimal floating point of the attribute values.  The value is held as   *)
(* its exact decimal [whole, nanos], nanos in 0..999999999; the attribute  *)
(* values of the model are fractions an f64 represents exactly (k / 2^n).  *)
(* The f64 arithmetic of ExtInf is modelled bit by bit further down.       *)
(***************************************************************************)
RECURSIVE Pow10(_)
Pow10(n) == IF n = 0 THEN 1 ELSE 10 * Pow10(n - 1)

\* f64::from_str on an unsigned decimal: digits, optionally "." and digits.
F64Parts(w, f) ==
    IF Len(w) + Len(f) >= 1 /\ AllDigits(w, 1) /\ AllDigits(f, 1) /\ Len(f) <= 9
    THEN Ok([whole |-> DigitsValue(w, 1, 0),
             nanos |-> DigitsValue(f, 1, 0) * Pow10(9 - Len(f))])
    ELSE Err

F64Split(s, dot) ==
    IF dot = 0 THEN F64Parts(s, "")
    ELSE F64Parts(SubSeq(s, 1, dot - 1), SubSeq(s, dot + 1, Len(s)))

F64FromStr(s) == F64Split(s, IndexOf(s, ".", 1))

RECURSIVE StripZeros(_)
StripZeros(s) ==
    IF Len(s) > 0 /\ Char(s, Len(s)) = "0" THEN StripZeros(SubSeq(s, 1, Len(s) - 1)) ELSE s

RECURSIVE PadLeft(_, _)
PadLeft(s, n) == IF Len(s) >= n THEN s ELSE PadLeft("0" \o s, n)

\* f64 as Display: the shortest decimal that reads back as the same value;
\* no fraction is written for a whole number.
F64Fmt(x) ==
    IF x.nanos = 0 THEN ToString(x.whole)
    ELSE ToString(x.whole) \o "." \o StripZeros(PadLeft(ToString(x.nanos), 9))

\* DecimalFloatingPoint::from_str: a non-negative decimal.
DecimalFloatingPointFromStr(s) == F64FromStr(s)
DecimalFloatingPointFmt(x) == F64Fmt(x)

\* DecimalFloatingPoint::to_duration: seconds and the fraction * 1e9,
\* rounded toward zero.
ToDuration(x) == [secs |-> x.whole, nanos |-> x.nanos]

\* DecimalFloatingPoint::from_duration: secs + nanos / 1e9.
FromDuration(d) == [whole |-> d.secs, nanos |-> d.nanos]

\* SignedDecimalFloatingPoint::from_str: an optional "-" and a decimal.
SignedNew(neg, r) ==
    IF r.ok THEN Ok([neg |-> neg /\ (r.v.whole # 0 \/ r.v.nanos # 0), abs |-> r.v]) ELSE Err

SignedDecimalFloatingPointFromStr(s) ==
    IF StartsWith(s, "-") THEN SignedNew(TRUE, F64FromStr(SplitAt1(s, 1)))
    ELSE SignedNew(FALSE, F64FromStr(s))

SignedDecimalFloatingPointFmt(x) == (IF x.neg THEN "-" ELSE "") \o F64Fmt(x.abs)

\* DecimalResolution::from_str: split once on the first x or X; both sides
\* are positive decimal integers.
ResolutionNew(w, h) ==
    IF w.ok /\ h.ok /\ w.v > 0 /\ h.v > 0 THEN Ok([width |-> w.v, height |-> h.v]) ELSE Err

ResolutionSplit(s, at) ==
    IF at = 0 THEN Err
    ELSE ResolutionNew(DecimalIntegerFromStr(SubSeq(s, 1, at - 1)),
                       DecimalIntegerFromStr(SplitAt1(s, at)))

FirstOf(lo, up) == IF lo = 0 THEN up ELSE IF up = 0 THEN lo ELSE IF lo < up THEN lo ELSE up

DecimalResolutionFromStr(s) ==
    ResolutionSplit(s, FirstOf(IndexOf(s, "x", 1), IndexOf(s, "X", 1)))

DecimalResolutionFmt(r) == ToString(r.width) \o "x" \o ToString(r.height)

\* M3u8String::new: any text without a line break.
M3u8StringNew(s) ==
    IF Contains(s, "\n") \/ Contains(s, "\r") THEN Err ELSE Ok(s)

\* ProtocolVersion::from_str and Display: V1..V7 written "1".."7".
ProtocolVersionFromStr(s) ==
    IF Len(s) = 1 /\ DigitVal(s) >= 1 /\ DigitVal(s) <= 7 THEN Ok(DigitVal(s)) ELSE Err

ProtocolVersionFmt(v) == ToString(v)

\* The integer parse of the standard library (u64 and usize from_str, usize
\* of a 64-bit target): an optional "+" and at least one digit; a value above
\* the maximum of the type is an error.  The inputs of the model are below
\* 2^31 or above the maximum.
U64MaxDigits == "18446744073709551615"

RECURSIVE StripLeadingZeros(_)
StripLeadingZeros(d) ==
    IF Len(d) > 1 /\ Char(d, 1) = "0" THEN StripLeadingZeros(SplitAt1(d, 1)) ELSE d

\* a <= b for digit strings of the same length, from index i on.
RECURSIVE DigitsLeq(_, _, _)
DigitsLeq(a, b, i) ==
    IF i > Len(a) THEN TRUE
    ELSE IF DigitVal(Char(a, i)) < DigitVal(Char(b, i)) THEN TRUE
    ELSE IF DigitVal(Char(a, i)) > DigitVal(Char(b, i)) THEN FALSE
    ELSE DigitsLeq(a, b, i + 1)

FitsU64Canonical(d) ==
    Len(d) < Len(U64MaxDigits) \/ (Len(d) = Len(U64MaxDigits) /\ DigitsLeq(d, U64MaxDigits, 1))

FitsU64(d) == FitsU64Canonical(StripLeadingZeros(d))

IntDigits(d) ==
    IF Len(d) >= 1 /\ AllDigits(d, 1) /\ FitsU64(d) THEN Ok(DigitsValue(d, 1, 0)) ELSE Err

IntFromStr(s) == IF StartsWith(s, "+") THEN IntDigits(SplitAt1(s, 1)) ELSE IntDigits(s)

(***************************************************************************)
(* Attribute-pairs tokenizer (specification 4.2).                          *)
(***************************************************************************)
\* AttributePairs::next on a non-empty input: the key is everything up to
\* the next "=", the value runs to the next "," outside a quoted span that
\* the value's first character opens.  A missing "=" and an unterminated
\* quote are errors.
\* The pair and the rest of the input, the value ending before the comma
\* at the index comma of `after` (0: at the end of the input).
AttributePairsCut(key, after, comma) ==
    Ok([key   |-> key,
        value |-> IF comma = 0 THEN after ELSE SubSeq(after, 1, comma - 1),
        rest  |-> IF comma = 0 THEN "" ELSE SplitAt1(after, comma)])

\* A quoted value ends at the first comma after its closing quote.
AttributePairsQuoted(key, after, close) ==
    IF close = 0 THEN Err
    ELSE AttributePairsCut(key, after, IndexOf(after, ",", close + 1))

AttributePairsValue(key, after) ==
    IF StartsWith(after, DoubleQuote)
    THEN AttributePairsQuoted(key, after, IndexOf(after, DoubleQuote, 2))
    ELSE AttributePairsCut(key, after, IndexOf(after, ",", 1))

AttributePairsKey(s, eq) ==
    IF eq = 0 THEN Err
    ELSE AttributePairsValue(SubSeq(s, 1, eq - 1), SplitAt1(s, eq))

AttributePairsNext(s) == AttributePairsKey(s, IndexOf(s, "=", 1))

(***************************************************************************)
(* Enumerated tokens (tag.rs).                                             *)
(***************************************************************************)
EncryptionMethodFmt(m) ==
    CASE m = "None" -> "NONE" [] m = "Aes128" -> "AES-128" [] m = "SampleAes" -> "SAMPLE-AES"

EncryptionMethodFromStr(s) ==
    CASE s = "NONE" -> Ok("None")
      [] s = "AES-128" -> Ok("Aes128")
      [] s = "SAMPLE-AES" -> Ok("SampleAes")
      [] OTHER -> Err

SessionEncryptionMethodFmt(m) ==
    CASE m = "Aes128" -> "AES-128" [] m = "SampleAes" -> "SAMPLE-AES"

SessionEncryptionMethodFromStr(s) ==
    CASE s = "AES-128" -> Ok("Aes128")
      [] s = "SAMPLE-AES" -> Ok("SampleAes")
      [] OTHER -> Err

PlaylistTypeFmt(t) == CASE t = "Event" -> "EVENT" [] t = "Vod" -> "VOD"

PlaylistTypeFromStr(s) ==
    CASE s = "EVENT" -> Ok("Event") [] s = "VOD" -> Ok("Vod") [] OTHER -> Err

MediaTypeFmt(t) ==
    CASE t = "Audio" -> "AUDIO" [] t = "Video" -> "VIDEO"
      [] t = "Subtitles" -> "SUBTITLES" [] t = "ClosedCaptions" -> "CLOSED-CAPTIONS"

MediaTypeFromStr(s) ==
    CASE s = "AUDIO" -> Ok("Audio")
      [] s = "VIDEO" -> Ok("Video")
      [] s = "SUBTITLES" -> Ok("Subtitles")
      [] s = "CLOSED-CAPTIONS" -> Ok("ClosedCaptions")
      [] OTHER -> Err

YesOrNoFmt(y) == CASE y = "Yes" -> "YES" [] y = "No" -> "NO"

\* YesOrNoFromStr that also takes the lower-case spellings.
YesOrNoFromStrAnyCase(s) ==
    CASE s \in {"YES", "yes"} -> Ok("Yes") [] s \in {"NO", "no"} -> Ok("No") [] OTHER -> Err

YesOrNoFromStr(s) ==
    CASE s = "YES" -> Ok("Yes") [] s = "NO" -> Ok("No") [] OTHER -> Err

YesFmt(y) == "YES"

YesFromStr(s) == IF s = "YES" THEN Ok("Yes") ELSE Err

HdcpLevelFmt(l) == CASE l = "Type0" -> "TYPE-0" [] l = "None" -> "NONE"

HdcpLevelFromStr(s) ==
    CASE s = "TYPE-0" -> Ok("Type0") [] s = "NONE" -> Ok("None") [] OTHER -> Err

ClosedCaptionsFmt(c) ==
    IF c.case = "GroupId" THEN QuotedStringFmt(c.id) ELSE "NONE"

ClosedCaptionsGroupId(q) == IF q.ok THEN Ok([case |-> "GroupId", id |-> q.v]) ELSE Err

ClosedCaptionsFromStr(s) ==
    IF s = "NONE" THEN Ok([case |-> "None"])
    ELSE ClosedCaptionsGroupId(QuotedStringFromStr(s))

(***************************************************************************)
(* The attribute loop shared by the attribute-list variants.               *)
(***************************************************************************)
\* `let seconds: DecimalFloatingPoint = value.parse()?; seconds.to_duration()`
SecondsToDuration(x) == IF x.ok THEN Ok(ToDuration(x.v)) ELSE Err

\* value.parse() at the type of the attribute that an arm assigns.
ParseValue(ty, raw) ==
    CASE ty = "QuotedString" -> QuotedStringFromStr(raw)
      [] ty = "HexadecimalSequence" -> HexadecimalSequenceFromStr(raw)
      [] ty = "DecimalInteger" -> DecimalIntegerFromStr(raw)
      [] ty = "DecimalFloatingPoint" -> DecimalFloatingPointFromStr(raw)
      [] ty = "SignedDecimalFloatingPoint" -> SignedDecimalFloatingPointFromStr(raw)
      [] ty = "DecimalResolution" -> DecimalResolutionFromStr(raw)
      [] ty = "Duration" -> SecondsToDuration(DecimalFloatingPointFromStr(raw))
      [] ty = "EncryptionMethod" -> EncryptionMethodFromStr(raw)
      [] ty = "SessionEncryptionMethod" -> SessionEncryptionMethodFromStr(raw)
      [] ty = "MediaType" -> MediaTypeFromStr(raw)
      [] ty = "YesOrNo" -> YesOrNoFromStr(raw)
      [] ty = "Yes" -> YesFromStr(raw)
      [] ty = "HdcpLevel" -> HdcpLevelFromStr(raw)
      [] ty = "ClosedCaptions" -> ClosedCaptionsFromStr(raw)

\* The Display of a value of the type ty.
FmtValue(ty, v) ==
    CASE ty = "QuotedString" -> QuotedStringFmt(v)
      [] ty = "HexadecimalSequence" -> HexadecimalSequenceFmt(v)
      [] ty = "DecimalInteger" -> DecimalIntegerFmt(v)
      [] ty = "DecimalFloatingPoint" -> DecimalFloatingPointFmt(v)
      [] ty = "SignedDecimalFloatingPoint" -> SignedDecimalFloatingPointFmt(v)
      [] ty = "DecimalResolution" -> DecimalResolutionFmt(v)
      [] ty = "Duration" -> DecimalFloatingPointFmt(FromDuration(v))
      [] ty = "EncryptionMethod" -> EncryptionMethodFmt(v)
      [] ty = "SessionEncryptionMethod" -> SessionEncryptionMethodFmt(v)
      [] ty = "MediaType" -> MediaTypeFmt(v)
      [] ty = "YesOrNo" -> YesOrNoFmt(v)
      [] ty = "Yes" -> YesFmt(v)
      [] ty = "HdcpLevel" -> HdcpLevelFmt(v)
      [] ty = "ClosedCaptions" -> ClosedCaptionsFmt(v)

\* if let Some(ref x) = field { write!(f, "<pre>{}", x)?; }
WriteOpt(pre, o, ty) == IF o = None THEN "" ELSE pre \o FmtValue(ty, o[1])

\* An arm of a from_str match: `key => { [track_assert_eq!(field, None);]
\* field = Some(value.parse()?) }`.  dup says whether the arm asserts that
\* the field is still None.
Arm(key, field, ty, dup) == [key |-> key, field |-> field, ty |-> ty, dup |-> dup]

ArmFields(arms) == {arms[i].field : i \in 1..Len(arms)}
ArmKeys(arms) == {arms[i].key : i \in 1..Len(arms)}
ArmOf(arms, key) == arms[CHOOSE i \in 1..Len(arms) : arms[i].key = key]

\* `let mut field = None;` for every field of the variant.
AllNone(arms) == [f \in ArmFields(arms) |-> None]

\* One match arm taken: the duplicate check where the arm has one, the
\* parse of the value, the assignment.
\* field = Some(v)
ArmAssign(arm, acc, v) ==
    IF v.ok THEN Ok([acc EXCEPT ![arm.field] = Some(v.v)]) ELSE Err

ArmStep(arm, acc, value) ==
    IF arm.dup /\ acc[arm.field] # None THEN Err
    ELSE ArmAssign(arm, acc, ParseValue(arm.ty, value))

\* `for attr in attrs { let (key, value) = track!(attr)?; match key {..} }`:
\* a tokenizer error and an arm's error end the parse; a key no arm matches
\* is ignored.
RECURSIVE AttrLoop(_, _, _)
AttrLoopArm(arms, rest, r) == IF r.ok THEN AttrLoop(arms, rest, r.v) ELSE Err

\* AttrLoopPair with a key that no arm matches taken as an error.
AttrLoopPairStrict(arms, acc, t) ==
    IF ~t.ok THEN Err
    ELSE IF t.v.key \notin ArmKeys(arms) THEN Err
    ELSE AttrLoopArm(arms, t.v.rest, ArmStep(ArmOf(arms, t.v.key), acc, t.v.value))

\* AttrLoopPair with the first arm of the match leaving the loop.
AttrLoopPairBreak(arms, acc, t) ==
    IF ~t.ok THEN Err
    ELSE IF t.v.key \notin ArmKeys(arms) THEN AttrLoop(arms, t.v.rest, acc)
    ELSE IF t.v.key = arms[1].key THEN ArmStep(arms[1], acc, t.v.value)
    ELSE AttrLoopArm(arms, t.v.rest, ArmStep(ArmOf(arms, t.v.key), acc, t.v.value))

AttrLoopPair(arms, acc, t) ==
    IF ~t.ok THEN Err
    ELSE IF t.v.key \notin ArmKeys(arms) THEN AttrLoop(arms, t.v.rest, acc)
    ELSE AttrLoopArm(arms, t.v.rest, ArmStep(ArmOf(arms, t.v.key), acc, t.v.value))

AttrLoop(arms, s, acc) ==
    IF s = "" THEN Ok(acc) ELSE AttrLoopPair(arms, acc, AttributePairsNext(s))

\* AttributePairs::parse(s.split_at(PREFIX.len()).1) and the loop over it.
ParseAttrs(arms, prefix, s) == AttrLoop(arms, SplitAt1(s, Len(prefix)), AllNone(arms))

(***************************************************************************)
(* ExtXKey                                                                 *)
(***************************************************************************)
ExtXKeyPREFIX == "#EXT-X-KEY:"

ExtXKeyArms == <<
    Arm("METHOD", "method", "EncryptionMethod", TRUE),
    Arm("URI", "uri", "QuotedString", TRUE),
    Arm("IV", "iv", "HexadecimalSequence", TRUE),
    Arm("KEYFORMAT", "key_format", "QuotedString", TRUE),
    Arm("KEYFORMATVERSIONS", "key_format_versions", "QuotedString", TRUE) >>

ExtXKeyFmt(t) ==
    ExtXKeyPREFIX
    \o "METHOD=" \o EncryptionMethodFmt(t.method)
    \o WriteOpt(",URI=", t.uri, "QuotedString")
    \o WriteOpt(",IV=", t.iv, "HexadecimalSequence")
    \o WriteOpt(",KEYFORMAT=", t.key_format, "QuotedString")
    \o WriteOpt(",KEYFORMATVERSIONS=", t.key_format_versions, "QuotedString")

\* ExtXKeyNew without the check of the URI against the method.
ExtXKeyNewNoUriCheck(r) ==
    IF ~r.ok THEN Err
    ELSE IF r.v.method = None THEN Err
    ELSE Ok([method |-> Unwrap(r.v.method),
             uri |-> r.v.uri,
             iv |-> r.v.iv,
             key_format |-> r.v.key_format,
             key_format_versions |-> r.v.key_format_versions])

\* The checks after the loop, and the struct.
ExtXKeyNew(r) ==
    IF ~r.ok THEN Err
    ELSE IF r.v.method = None THEN Err
    ELSE IF Unwrap(r.v.method) = "None" /\ r.v.uri # None THEN Err
    ELSE IF Unwrap(r.v.method) # "None" /\ ~IsSome(r.v.uri) THEN Err
    ELSE Ok([method |-> Unwrap(r.v.method),
             uri |-> r.v.uri,
             iv |-> r.v.iv,
             key_format |-> r.v.key_format,
             key_format_versions |-> r.v.key_format_versions])

ExtXKeyFromStr(s) ==
    IF ~StartsWith(s, ExtXKeyPREFIX) THEN Err
    ELSE ExtXKeyNew(ParseAttrs(ExtXKeyArms, ExtXKeyPREFIX, s))

\* ExtXKeyCompatibilityVersion with the IV tested before the key format.
ExtXKeyCompatibilityVersionIvFirst(t) ==
    IF IsSome(t.iv) THEN 2
    ELSE IF IsSome(t.key_format) \/ IsSome(t.key_format_versions) THEN 5
    ELSE 1

\* ExtXKey::compatibility_version
ExtXKeyCompatibilityVersion(t) ==
    IF IsSome(t.key_format) \/ IsSome(t.key_format_versions) THEN 5
    ELSE IF IsSome(t.iv) THEN 2
    ELSE 1

(***************************************************************************)
(* ExtXMap                                                                 *)
(***************************************************************************)
ExtXMapPREFIX == "#EXT-X-MAP:"

ExtXMapArms == <<
    Arm("URI", "uri", "QuotedString", TRUE),
    Arm("BYTERANGE", "byte_range", "QuotedString", TRUE) >>

ExtXMapFmt(t) ==
    ExtXMapPREFIX
    \o "URI=" \o QuotedStringFmt(t.uri)
    \o WriteOpt(",BYTERANGE=", t.byte_range, "QuotedString")

\* The checks after the loop, and the struct.
ExtXMapNew(r) ==
    IF ~r.ok THEN Err
    ELSE IF r.v.uri = None THEN Err
    ELSE Ok([uri |-> Unwrap(r.v.uri), byte_range |-> r.v.byte_range])

ExtXMapFromStr(s) ==
    IF ~StartsWith(s, ExtXMapPREFIX) THEN Err
    ELSE ExtXMapNew(ParseAttrs(ExtXMapArms, ExtXMapPREFIX, s))

(***************************************************************************)
(* ExtXDateRange                                                           *)
(***************************************************************************)
ExtXDateRangePREFIX == "#EXT-X-DATERANGE:"

ExtXDateRangeArms == <<
    Arm("ID", "id", "QuotedString", FALSE),
    Arm("CLASS", "class", "QuotedString", FALSE),
    Arm("START-DATE", "start_date", "QuotedString", FALSE),
    Arm("END-DATE", "end_date", "QuotedString", FALSE),
    Arm("DURATION", "duration", "Duration", FALSE),
    Arm("PLANNED-DURATION", "planned_duration", "Duration", FALSE),
    Arm("SCTE35-CMD", "scte35_cmd", "QuotedString", FALSE),
    Arm("SCTE35-OUT", "scte35_out", "QuotedString", FALSE),
    Arm("SCTE35-IN", "scte35_in", "QuotedString", FALSE),
    Arm("END-ON-NEXT", "end_on_next", "Yes", FALSE) >>

ExtXDateRangeFmt(t) ==
    ExtXDateRangePREFIX
    \o "ID=" \o QuotedStringFmt(t.id)
    \o WriteOpt(",CLASS=", t.class, "QuotedString")
    \o ",START_DATE=" \o QuotedStringFmt(t.start_date)
    \o WriteOpt(",END_DATE=", t.end_date, "QuotedString")
    \o WriteOpt(",DURATION=", t.duration, "Duration")
    \o WriteOpt(",PLANNED_DURATION=", t.planned_duration, "Duration")
    \o WriteOpt(",SCTE35_CMD=", t.scte35_cmd, "QuotedString")
    \o WriteOpt(",SCTE35_OUT=", t.scte35_out, "QuotedString")
    \o WriteOpt(",SCTE35_IN=", t.scte35_in, "QuotedString")
    \o WriteOpt(",END_ON_NEXT=", t.end_on_next, "Yes")

\* ExtXDateRangeNew without the check of CLASS when END-ON-NEXT is present.
ExtXDateRangeNewNoClassCheck(r) ==
    IF ~r.ok THEN Err
    ELSE IF r.v.id = None THEN Err
    ELSE IF r.v.start_date = None THEN Err
    ELSE Ok([id |-> Unwrap(r.v.id),
             class |-> r.v.class,
             start_date |-> Unwrap(r.v.start_date),
             end_date |-> r.v.end_date,
             duration |-> r.v.duration,
             planned_duration |-> r.v.planned_duration,
             scte35_cmd |-> r.v.scte35_cmd,
             scte35_out |-> r.v.scte35_out,
             scte35_in |-> r.v.scte35_in,
             end_on_next |-> r.v.end_on_next])

\* The checks after the loop, and the struct.
ExtXDateRangeNew(r) ==
    IF ~r.ok THEN Err
    ELSE IF r.v.id = None THEN Err
    ELSE IF r.v.start_date = None THEN Err
    ELSE IF IsSome(r.v.end_on_next) /\ ~IsSome(r.v.class) THEN Err
    ELSE Ok([id |-> Unwrap(r.v.id),
             class |-> r.v.class,
             start_date |-> Unwrap(r.v.start_date),
             end_date |-> r.v.end_date,
             duration |-> r.v.duration,
             planned_duration |-> r.v.planned_duration,
             scte35_cmd |-> r.v.scte35_cmd,
             scte35_out |-> r.v.scte35_out,
             scte35_in |-> r.v.scte35_in,
             end_on_next |-> r.v.end_on_next])

ExtXDateRangeFromStr(s) ==
    IF ~StartsWith(s, ExtXDateRangePREFIX) THEN Err
    ELSE ExtXDateRangeNew(ParseAttrs(ExtXDateRangeArms, ExtXDateRangePREFIX, s))

(***************************************************************************)
(* ExtXMedia                                                               *)
(***************************************************************************)
ExtXMediaPREFIX == "#EXT-X-MEDIA:"

ExtXMediaArms == <<
    Arm("TYPE", "media_type", "MediaType", FALSE),
    Arm("URI", "uri", "QuotedString", FALSE),
    Arm("GROUP-ID", "group_id", "QuotedString", FALSE),
    Arm("LANGUAGE", "language", "QuotedString", FALSE),
    Arm("ASSOC-LANGUAGE", "assoc_language", "QuotedString", FALSE),
    Arm("NAME", "name", "QuotedString", FALSE),
    Arm("DEFAULT", "default", "YesOrNo", FALSE),
    Arm("AUTOSELECT", "autoselect", "YesOrNo", FALSE),
    Arm("FORCED", "forced", "YesOrNo", FALSE),
    Arm("INSTREAM-ID", "instream_id", "QuotedString", FALSE),
    Arm("CHARACTERISTICS", "characteristics", "QuotedString", FALSE),
    Arm("CHANNELS", "channels", "QuotedString", FALSE) >>

ExtXMediaFmt(t) ==
    ExtXMediaPREFIX
    \o "TYPE=" \o MediaTypeFmt(t.media_type)
    \o WriteOpt(",URI=", t.uri, "QuotedString")
    \o ",GROUP_ID=" \o QuotedStringFmt(t.group_id)
    \o WriteOpt(",LANGUAGE=", t.language, "QuotedString")
    \o WriteOpt(",ASSOC-LANGUAGE=", t.assoc_language, "QuotedString")
    \o ",NAME=" \o QuotedStringFmt(t.name)
    \o (IF t.default = "Yes" THEN ",DEFAULT=" \o YesOrNoFmt(t.default) ELSE "")
    \o (IF t.autoselect = "Yes" THEN ",AUTOSELECT=" \o YesOrNoFmt(t.autoselect) ELSE "")
    \o WriteOpt(",FORCED=", t.forced, "YesOrNo")
    \o WriteOpt(",INSTREAM-ID=", t.instream_id, "QuotedString")
    \o WriteOpt(",CHARACTERISTICS=", t.characteristics, "QuotedString")
    \o WriteOpt(",CHANNELS=", t.channels, "QuotedString")

\* The struct that ExtXMedia::from_str returns.
ExtXMediaStruct(r) ==
    Ok([media_type |-> Unwrap(r.v.media_type),
        uri |-> r.v.uri,
        group_id |-> Unwrap(r.v.group_id),
        language |-> r.v.language,
        assoc_language |-> r.v.assoc_language,
        name |-> Unwrap(r.v.name),
        default |-> UnwrapOr(r.v.default, "No"),
        autoselect |-> UnwrapOr(r.v.autoselect, "No"),
        forced |-> r.v.forced,
        instream_id |-> r.v.instream_id,
        characteristics |-> r.v.characteristics,
        channels |-> r.v.channels])

\* ExtXMediaNew without the INSTREAM-ID check of the types other than
\* CLOSED-CAPTIONS.
ExtXMediaNewNoInstreamCheck(r) ==
    IF ~r.ok THEN Err
    ELSE IF r.v.media_type = None THEN Err
    ELSE IF r.v.group_id = None THEN Err
    ELSE IF r.v.name = None THEN Err
    ELSE IF Unwrap(r.v.media_type) = "ClosedCaptions"
            /\ (r.v.uri = None \/ ~IsSome(r.v.instream_id)) THEN Err
    ELSE IF Unwrap(r.v.media_type) # "Subtitles" /\ r.v.forced # None THEN Err
    ELSE ExtXMediaStruct(r)

\* ExtXMediaNew without the FORCED check.
ExtXMediaNewNoForcedCheck(r) ==
    IF ~r.ok THEN Err
    ELSE IF r.v.media_type = None THEN Err
    ELSE IF r.v.group_id = None THEN Err
    ELSE IF r.v.name = None THEN Err
    ELSE IF Unwrap(r.v.media_type) = "ClosedCaptions"
            /\ (r.v.uri = None \/ ~IsSome(r.v.instream_id)) THEN Err
    ELSE IF Unwrap(r.v.media_type) # "ClosedCaptions"
            /\ ~IsNone(r.v.instream_id) THEN Err
    ELSE ExtXMediaStruct(r)

\* The checks after the loop, and the struct.
ExtXMediaNew(r) ==
    IF ~r.ok THEN Err
    ELSE IF r.v.media_type = None THEN Err
    ELSE IF r.v.group_id = None THEN Err
    ELSE IF r.v.name = None THEN Err
    ELSE IF Unwrap(r.v.media_type) = "ClosedCaptions"
            /\ (r.v.uri = None \/ ~IsSome(r.v.instream_id)) THEN Err
    ELSE IF Unwrap(r.v.media_type) # "ClosedCaptions"
            /\ ~IsNone(r.v.instream_id) THEN Err
    ELSE IF Unwrap(r.v.media_type) # "Subtitles" /\ r.v.forced # None THEN Err
    ELSE ExtXMediaStruct(r)

ExtXMediaFromStr(s) ==
    IF ~StartsWith(s, ExtXMediaPREFIX) THEN Err
    ELSE ExtXMediaNew(ParseAttrs(ExtXMediaArms, ExtXMediaPREFIX, s))

(***************************************************************************)
(* ExtXStreamInf                                                           *)
(***************************************************************************)
ExtXStreamInfPREFIX == "#EXT-X-STREAM-INF:"

ExtXStreamInfArms == <<
    Arm("BANDWIDTH", "bandwidth", "DecimalInteger", FALSE),
    Arm("AVERAGE-BANDWIDTH", "average_bandwidth", "DecimalInteger", FALSE),
    Arm("CODECS", "codecs", "QuotedString", FALSE),
    Arm("RESOLUTION", "resolution", "DecimalResolution", FALSE),
    Arm("FRAME-RATE", "frame_rate", "DecimalFloatingPoint", FALSE),
    Arm("HDCP-LEVEL", "hdcp_level", "HdcpLevel", FALSE),
    Arm("AUDIO", "audio", "QuotedString", FALSE),
    Arm("VIDEO", "video", "QuotedString", FALSE),
    Arm("SUBTITLES", "subtitles", "QuotedString", FALSE),
    Arm("CLOSED-CAPTIONS", "closed_captions", "ClosedCaptions", FALSE) >>

ExtXStreamInfFmt(t) ==
    ExtXStreamInfPREFIX
    \o "BANDWIDTH=" \o DecimalIntegerFmt(t.bandwidth)
    \o WriteOpt(",AVERAGE-BANDWIDTH=", t.average_bandwidth, "DecimalInteger")
    \o WriteOpt(",CODECS=", t.codecs, "QuotedString")
    \o WriteOpt(",RESOLUTION=", t.resolution, "DecimalResolution")
    \o WriteOpt(",FRAME-RATE=", t.frame_rate, "DecimalFloatingPoint")
    \o WriteOpt(",HDCP-LEVEL=", t.hdcp_level, "HdcpLevel")
    \o WriteOpt(",AUDIO=", t.audio, "QuotedString")
    \o WriteOpt(",VIDEO=", t.video, "QuotedString")
    \o WriteOpt(",SUBTITLES=", t.subtitles, "QuotedString")
    \o WriteOpt(",CLOSED-CAPTIONS=", t.closed_captions, "ClosedCaptions")

\* ExtXStreamInfNew with a missing BANDWIDTH defaulted instead of refused.
ExtXStreamInfNewDefaulted(r) ==
    IF ~r.ok THEN Err
    ELSE Ok([bandwidth |-> UnwrapOr(r.v.bandwidth, 0),
             average_bandwidth |-> r.v.average_bandwidth,
             codecs |-> r.v.codecs,
             resolution |-> r.v.resolution,
             frame_rate |-> r.v.frame_rate,
             hdcp_level |-> r.v.hdcp_level,
             audio |-> r.v.audio,
             video |-> r.v.video,
             subtitles |-> r.v.subtitles,
             closed_captions |-> r.v.closed_captions])

\* The checks after the loop, and the struct.
ExtXStreamInfNew(r) ==
    IF ~r.ok THEN Err
    ELSE IF r.v.bandwidth = None THEN Err
    ELSE Ok([bandwidth |-> Unwrap(r.v.bandwidth),
             average_bandwidth |-> r.v.average_bandwidth,
             codecs |-> r.v.codecs,
             resolution |-> r.v.resolution,
             frame_rate |-> r.v.frame_rate,
             hdcp_level |-> r.v.hdcp_level,
             audio |-> r.v.audio,
             video |-> r.v.video,
             subtitles |-> r.v.subtitles,
             closed_captions |-> r.v.closed_captions])

ExtXStreamInfFromStr(s) ==
    IF ~StartsWith(s, ExtXStreamInfPREFIX) THEN Err
    ELSE ExtXStreamInfNew(ParseAttrs(ExtXStreamInfArms, ExtXStreamInfPREFIX, s))

(***************************************************************************)
(* ExtXIFrameStreamInf                                                     *)
(***************************************************************************)
ExtXIFrameStreamInfPREFIX == "#EXT-X-I-FRAME-STREAM-INF:"

ExtXIFrameStreamInfArms == <<
    Arm("URI", "uri", "QuotedString", FALSE),
    Arm("BANDWIDTH", "bandwidth", "DecimalInteger", FALSE),
    Arm("AVERAGE-BANDWIDTH", "average_bandwidth", "DecimalInteger", FALSE),
    Arm("CODECS", "codecs", "QuotedString", FALSE),
    Arm("RESOLUTION", "resolution", "DecimalResolution", FALSE),
    Arm("HDCP-LEVEL", "hdcp_level", "HdcpLevel", FALSE),
    Arm("VIDEO", "video", "QuotedString", FALSE) >>

ExtXIFrameStreamInfFmt(t) ==
    ExtXIFrameStreamInfPREFIX
    \o "URI=" \o QuotedStringFmt(t.uri)
    \o ",BANDWIDTH=" \o DecimalIntegerFmt(t.bandwidth)
    \o WriteOpt(",AVERAGE-BANDWIDTH=", t.average_bandwidth, "DecimalInteger")
    \o WriteOpt(",CODECS=", t.codecs, "QuotedString")
    \o WriteOpt(",RESOLUTION=", t.resolution, "DecimalResolution")
    \o WriteOpt(",HDCP-LEVEL=", t.hdcp_level, "HdcpLevel")
    \o WriteOpt(",VIDEO=", t.video, "QuotedString")

\* The checks after the loop, and the struct.
ExtXIFrameStreamInfNew(r) ==
    IF ~r.ok THEN Err
    ELSE IF r.v.uri = None THEN Err
    ELSE IF r.v.bandwidth = None THEN Err
    ELSE Ok([uri |-> Unwrap(r.v.uri),
             bandwidth |-> Unwrap(r.v.bandwidth),
             average_bandwidth |-> r.v.average_bandwidth,
             codecs |-> r.v.codecs,
             resolution |-> r.v.resolution,
             hdcp_level |-> r.v.hdcp_level,
             video |-> r.v.video])

ExtXIFrameStreamInfFromStr(s) ==
    IF ~StartsWith(s, ExtXIFrameStreamInfPREFIX) THEN Err
    ELSE ExtXIFrameStreamInfNew(ParseAttrs(ExtXIFrameStreamInfArms, ExtXIFrameStreamInfPREFIX, s))

(***************************************************************************)
(* ExtXSessionData                                                         *)
(***************************************************************************)
ExtXSessionDataPREFIX == "#EXT-X-SESSION-DATA:"

ExtXSessionDataArms == <<
    Arm("DATA-ID", "data_id", "QuotedString", FALSE),
    Arm("VALUE", "session_value", "QuotedString", FALSE),
    Arm("URI", "uri", "QuotedString", FALSE),
    Arm("LANGUAGE", "language", "QuotedString", FALSE) >>

ExtXSessionDataFmt(t) ==
    ExtXSessionDataPREFIX
    \o "DATA-ID=" \o QuotedStringFmt(t.data_id)
    \o (IF t.data.case = "Value" THEN ",VALUE=" \o QuotedStringFmt(t.data.x)
        ELSE ",URI=" \o QuotedStringFmt(t.data.x))
    \o WriteOpt(",LANGUAGE=", t.language, "QuotedString")

\* ExtXSessionDataNew without the assertion that URI is absent when VALUE
\* is present.
ExtXSessionDataNewValueWins(r) ==
    IF ~r.ok THEN Err
    ELSE IF r.v.data_id = None THEN Err
    ELSE IF r.v.session_value # None THEN
             Ok([data_id |-> Unwrap(r.v.data_id),
                 data |-> [case |-> "Value", x |-> Unwrap(r.v.session_value)],
                 language |-> r.v.language])
    ELSE IF r.v.uri # None THEN
             Ok([data_id |-> Unwrap(r.v.data_id),
                 data |-> [case |-> "Uri", x |-> Unwrap(r.v.uri)],
                 language |-> r.v.language])
    ELSE Err

\* The checks after the loop, and the struct.
ExtXSessionDataNew(r) ==
    IF ~r.ok THEN Err
    ELSE IF r.v.data_id = None THEN Err
    ELSE IF r.v.session_value # None THEN
             IF r.v.uri # None THEN Err
             ELSE Ok([data_id |-> Unwrap(r.v.data_id),
                      data |-> [case |-> "Value", x |-> Unwrap(r.v.session_value)],
                      language |-> r.v.language])
    ELSE IF r.v.uri # None THEN
             Ok([data_id |-> Unwrap(r.v.data_id),
                 data |-> [case |-> "Uri", x |-> Unwrap(r.v.uri)],
                 language |-> r.v.language])
    ELSE Err

ExtXSessionDataFromStr(s) ==
    IF ~StartsWith(s, ExtXSessionDataPREFIX) THEN Err
    ELSE ExtXSessionDataNew(ParseAttrs(ExtXSessionDataArms, ExtXSessionDataPREFIX, s))

(***************************************************************************)
(* ExtXSessionKey                                                          *)
(***************************************************************************)
ExtXSessionKeyPREFIX == "#EXT-X-SESSION-KEY:"

ExtXSessionKeyArms == <<
    Arm("METHOD", "method", "SessionEncryptionMethod", TRUE),
    Arm("URI", "uri", "QuotedString", TRUE),
    Arm("IV", "iv", "HexadecimalSequence", TRUE),
    Arm("KEYFORMAT", "key_format", "QuotedString", TRUE),
    Arm("KEYFORMATVERSIONS", "key_format_versions", "QuotedString", TRUE) >>

ExtXSessionKeyFmt(t) ==
    ExtXSessionKeyPREFIX
    \o "METHOD=" \o SessionEncryptionMethodFmt(t.method)
    \o ",URI=" \o QuotedStringFmt(t.uri)
    \o WriteOpt(",IV=", t.iv, "HexadecimalSequence")
    \o WriteOpt(",KEYFORMAT=", t.key_format, "QuotedString")
    \o WriteOpt(",KEYFORMATVERSIONS=", t.key_format_versions, "QuotedString")

\* ExtXSessionKeyNew without the check of the URI: an absent URI is empty.
ExtXSessionKeyNewNoUriCheck(r) ==
    IF ~r.ok THEN Err
    ELSE IF r.v.method = None THEN Err
    ELSE Ok([method |-> Unwrap(r.v.method),
             uri |-> UnwrapOr(r.v.uri, ""),
             iv |-> r.v.iv,
             key_format |-> r.v.key_format,
             key_format_versions |-> r.v.key_format_versions])

\* The checks after the loop, and the struct.
ExtXSessionKeyNew(r) ==
    IF ~r.ok THEN Err
    ELSE IF r.v.method = None THEN Err
    ELSE IF r.v.uri = None THEN Err
    ELSE Ok([method |-> Unwrap(r.v.method),
             uri |-> Unwrap(r.v.uri),
             iv |-> r.v.iv,
             key_format |-> r.v.key_format,
             key_format_versions |-> r.v.key_format_versions])

ExtXSessionKeyFromStr(s) ==
    IF ~StartsWith(s, ExtXSessionKeyPREFIX) THEN Err
    ELSE ExtXSessionKeyNew(ParseAttrs(ExtXSessionKeyArms, ExtXSessionKeyPREFIX, s))

(***************************************************************************)
(* ExtXStart                                                               *)
(***************************************************************************)
ExtXStartPREFIX == "#EXT-X-START:"

ExtXStartArms == <<
    Arm("TIME-OFFSET", "time_offset", "SignedDecimalFloatingPoint", FALSE),
    Arm("PRECISE", "precise", "YesOrNo", FALSE) >>

\* ExtXStartFmt with PRECISE written whatever its value.
ExtXStartFmtAlways(t) ==
    ExtXStartPREFIX
    \o "TIME-OFFSET=" \o SignedDecimalFloatingPointFmt(t.time_offset)
    \o ",PRECISE=" \o YesOrNoFmt(t.precise)

ExtXStartFmt(t) ==
    ExtXStartPREFIX
    \o "TIME-OFFSET=" \o SignedDecimalFloatingPointFmt(t.time_offset)
    \o (IF t.precise = "Yes" THEN ",PRECISE=" \o YesOrNoFmt(t.precise) ELSE "")

\* The checks after the loop, and the struct.
ExtXStartNew(r) ==
    IF ~r.ok THEN Err
    ELSE IF r.v.time_offset = None THEN Err
    ELSE Ok([time_offset |-> Unwrap(r.v.time_offset),
             precise |-> UnwrapOr(r.v.precise, "No")])

ExtXStartFromStr(s) ==
    IF ~StartsWith(s, ExtXStartPREFIX) THEN Err
    ELSE ExtXStartNew(ParseAttrs(ExtXStartArms, ExtXStartPREFIX, s))

(***************************************************************************)
(* Marker and scalar variants.                                             *)
(***************************************************************************)
\* The value of a unit struct (ExtM3u, ExtXDiscontinuity, ...).
Unit == <<>>

ExtM3uPREFIX == "#EXTM3U"
ExtM3uFmt(t) == ExtM3uPREFIX
ExtM3uFromStr(s) == IF s = ExtM3uPREFIX THEN Ok(Unit) ELSE Err

ExtXVersionPREFIX == "#EXT-X-VERSION:"
ExtXVersionFmt(t) == ExtXVersionPREFIX \o ProtocolVersionFmt(t.version)
ExtXVersionNew(v) == IF v.ok THEN Ok([version |-> v.v]) ELSE Err
ExtXVersionFromStr(s) ==
    IF ~StartsWith(s, ExtXVersionPREFIX) THEN Err
    ELSE ExtXVersionNew(ProtocolVersionFromStr(SplitAt1(s, Len(ExtXVersionPREFIX))))

(***************************************************************************)
(* The f64 arithmetic of ExtInf.  An f64 of the model is [whole, bits]:    *)
(* its integer part and the bits of its fraction, as many as the 53-bit    *)
(* significand leaves below the integer part.  A decimal fraction is a     *)
(* sequence of digits, so that no intermediate value outgrows an integer.  *)
(* Every operation rounds to the nearest f64, ties to even, as the         *)
(* hardware does.  Tokens are unsigned decimals without exponent.          *)
(***************************************************************************)
DigitsOf(s) == SubSeq([i \in 1..Len(s) |-> DigitVal(Char(s, i))], 1, Len(s))
DigitAt(f, i) == IF i <= Len(f) THEN f[i] ELSE 0
IsZero(f) == \A i \in 1..Len(f) : f[i] = 0
MaxLen(a, b) == IF Len(a) >= Len(b) THEN Len(a) ELSE Len(b)

\* The first bit of the decimal fraction f, and the fraction that follows it.
TopBit(f) == IF Len(f) > 0 /\ f[1] >= 5 THEN 1 ELSE 0
Twice(f) ==
    SubSeq([i \in 1..Len(f) |->
               (2 * f[i] + (IF DigitAt(f, i + 1) >= 5 THEN 1 ELSE 0)) % 10], 1, Len(f))

\* The first n bits of f and what is left of f after them.
RECURSIVE BitsOf(_, _, _)
BitsOf(f, n, acc) ==
    IF Len(acc) >= n THEN [bits |-> acc, rem |-> f]
    ELSE BitsOf(Twice(f), n, Append(acc, TopBit(f)))

RECURSIVE LeadZeros(_, _)
LeadZeros(f, z) == IF TopBit(f) = 1 THEN z ELSE LeadZeros(Twice(f), z + 1)

RECURSIVE Log2(_)
Log2(w) == IF w < 2 THEN 0 ELSE 1 + Log2(w \div 2)

RECURSIVE IsPow2(_)
IsPow2(w) == w = 1 \/ (w > 1 /\ w % 2 = 0 /\ IsPow2(w \div 2))

\* The number of fraction bits of the f64 nearest to w.f
FracLen(w, f) ==
    IF w >= 1 THEN 52 - Log2(w)
    ELSE IF IsZero(f) THEN 0 ELSE LeadZeros(f, 0) + 53

\* The rest r against one half: 1 above, 0 equal, -1 below.
CmpHalf(r) ==
    IF Len(r) = 0 \/ r[1] < 5 THEN -1
    ELSE IF r[1] > 5 \/ ~IsZero(Tail(r)) THEN 1 ELSE 0

\* The binary fraction b plus one unit of its last place: the last 0 becomes
\* 1 and the 1s after it 0; without a 0 the fraction carries into the
\* integer part.
RECURSIVE LastBelow(_, _, _)
LastBelow(b, i, top) == IF i = 0 \/ b[i] < top THEN i ELSE LastBelow(b, i - 1, top)

IncAt(b, z) ==
    [bits |-> SubSeq([i \in 1..Len(b) |-> IF i < z THEN b[i] ELSE IF i = z THEN 1 ELSE 0],
                     1, Len(b)),
     carry |-> IF z = 0 THEN 1 ELSE 0]

Inc(b) == IncAt(b, LastBelow(b, Len(b), 1))

Odd(w, b) == IF Len(b) > 0 THEN b[Len(b)] = 1 ELSE w % 2 = 1
Carried(w, x) == [whole |-> w + x.carry, bits |-> x.bits]
RoundUp(w, b, up) == IF up THEN Carried(w, Inc(b)) ELSE [whole |-> w, bits |-> b]
RoundedAt(w, b, c) == RoundUp(w, b, c = 1 \/ (c = 0 /\ Odd(w, b)))
Rounded(w, br) == RoundedAt(w, br.bits, CmpHalf(br.rem))

\* The f64 nearest to the decimal w.f
Nearest(w, f) == Rounded(w, BitsOf(f, FracLen(w, f), <<>>))

\* (b + 0.f) / 2 as a decimal fraction
Half(f, b) ==
    SubSeq([i \in 1..(Len(f) + 1) |->
               (10 * ((IF i > 1 THEN f[i - 1] ELSE b) % 2) + DigitAt(f, i)) \div 2],
           1, Len(f) + 1)

\* The exact decimal digits of the binary fraction b, from its last bit to
\* its first: 0.b1 b2 .. = (b1 + 0.b2 ..) / 2
RECURSIVE DecFrom(_, _)
DecFrom(b, acc) ==
    IF Len(acc) >= Len(b) THEN acc ELSE DecFrom(b, Half(acc, b[Len(b) - Len(acc)]))

Dec(b) == DecFrom(b, <<>>)

\* 2^-m as a decimal fraction
PowHalf(m) == Dec(SubSeq([i \in 1..m |-> IF i = m THEN 1 ELSE 0], 1, m))

\* The sum of two decimal fractions, digit by digit from the right: its
\* digits and the carry into the integer part.
RECURSIVE DecAddFrom(_, _, _, _, _)
DecAddStep(a, b, n, x, acc) ==
    IF x >= 10 THEN DecAddFrom(a, b, n, 1, <<x - 10>> \o acc)
    ELSE DecAddFrom(a, b, n, 0, <<x>> \o acc)

DecAddFrom(a, b, n, c, acc) ==
    IF Len(acc) >= n THEN [digits |-> acc, carry |-> c]
    ELSE DecAddStep(a, b, n, DigitAt(a, n - Len(acc)) + DigitAt(b, n - Len(acc)) + c, acc)

DecAdd(a, b) == DecAddFrom(a, b, MaxLen(a, b), 0, <<>>)
DecSum(a, b) == DecAdd(a, b).digits
Reaches1(a, b) == DecAdd(a, b).carry = 1

RECURSIVE DecLeq(_, _, _)
DecLeq(a, b, i) ==
    IF i > MaxLen(a, b) THEN TRUE
    ELSE IF DigitAt(a, i) < DigitAt(b, i) THEN TRUE
    ELSE IF DigitAt(a, i) > DigitAt(b, i) THEN FALSE
    ELSE DecLeq(a, b, i + 1)

RECURSIVE SeqValue(_, _, _)
SeqValue(f, i, acc) == IF i > Len(f) THEN acc ELSE SeqValue(f, i + 1, 10 * acc + f[i])

PadRight(f, n) ==
    SubSeq([i \in 1..(Len(f) + n) |-> DigitAt(f, i)], 1, IF Len(f) >= n THEN Len(f) ELSE n)

\* str::parse::<f64>
F64Digits(w, f) ==
    IF Len(w) + Len(f) >= 1 /\ AllDigits(w, 1) /\ AllDigits(f, 1)
    THEN Ok(Nearest(DigitsValue(w, 1, 0), DigitsOf(f)))
    ELSE Err

F64ParseAt(s, dot) ==
    IF dot = 0 THEN F64Digits(s, "")
    ELSE F64Digits(SubSeq(s, 1, dot - 1), SubSeq(s, dot + 1, Len(s)))

F64Parse(s) == F64ParseAt(s, IndexOf(s, ".", 1))

\* (fract * 1e9) as u32, the product fl.tail rounded to an f64 and then cut:
\* the product becomes the integer above it when it is nearer to that
\* integer than half the distance between that integer and the f64 below.
NanosUp(fl, tail) ==
    IF Reaches1(tail, PowHalf((IF IsPow2(fl + 1) THEN 54 ELSE 53) - Log2(fl + 1)))
    THEN fl + 1 ELSE fl

NanosCut(fl, tail) == IF IsZero(tail) THEN fl ELSE NanosUp(fl, tail)
NanosOf(e) == NanosCut(SeqValue(SubSeq(e, 1, 9), 1, 0), SubSeq(e, 10, Len(e)))

\* (duration.fract() * 1_000_000_000.0) as u32
FractNanos(bits) == NanosOf(PadRight(Dec(bits), 9))

\* Duration::new(secs, nanos): whole seconds of the nanoseconds carry over.
DurationNew(s, n) == [secs |-> s + n \div 1000000000, nanos |-> n % 1000000000]

\* subsec_nanos() as f64 / 1_000_000_000.0
NanosDigits(k) == SubSeq([i \in 1..9 |-> (k \div Pow10(9 - i)) % 10], 1, 9)
F64NanosAsSecs(k) == Nearest(0, NanosDigits(k))

\* as_secs() as f64 + q, for a q below one: q rounded to the fraction bits
\* the integer part w leaves.
Sticky(q, i) == \E j \in i..Len(q) : q[j] = 1

Narrow(w, q, n) ==
    RoundUp(w, SubSeq(q, 1, n),
            q[n + 1] = 1 /\ (Sticky(q, n + 2) \/ Odd(w, SubSeq(q, 1, n))))

F64Add(w, q) ==
    IF w = 0 THEN q
    ELSE IF IsZero(q.bits) THEN [whole |-> w, bits |-> <<>>]
    ELSE Narrow(w, q.bits, 52 - Log2(w))

\* The decimal fraction c plus one unit of its last place.
IncDecAt(c, z) ==
    SubSeq([i \in 1..Len(c) |-> IF i < z THEN c[i] ELSE IF i = z THEN c[i] + 1 ELSE 0],
           1, Len(c))

IncDec(c) == IncDecAt(c, LastBelow(c, Len(c), 9))

TailFrom(e, L) == SubSeq([i \in 1..Len(e) |-> IF i <= L THEN 0 ELSE e[i]], 1, Len(e))

\* The shortest decimal fraction that reads back as the f64 of exact digits
\* e, h being half the distance to the next f64: the first L for which e cut
\* to L digits, or the decimal above it, is within h of e; the nearer one
\* when both are.
RECURSIVE Shortest(_, _, _)
ShortestAt(e, h, L, downIn, upIn) ==
    IF downIn /\ upIn
    THEN (IF DigitAt(e, L + 1) >= 5 THEN IncDec(SubSeq(e, 1, L)) ELSE SubSeq(e, 1, L))
    ELSE IF downIn THEN SubSeq(e, 1, L)
    ELSE IF upIn THEN IncDec(SubSeq(e, 1, L))
    ELSE Shortest(e, h, L + 1)

Shortest(e, h, L) ==
    ShortestAt(e, h, L, DecLeq(TailFrom(e, L), h, 1),
               ~IsZero(SubSeq(DecSum(TailFrom(e, L), h), 1, L)))

RECURSIVE DigitsFmt(_, _)
DigitsFmt(c, i) ==
    IF i > Len(c) THEN "" ELSE Char(DecDigits, c[i] + 1) \o DigitsFmt(c, i + 1)

\* F64Display written as `{:?}` writes: a whole number with ".0".
F64DisplayDebug(d) ==
    IF IsZero(d.bits) THEN ToString(d.whole) \o ".0"
    ELSE ToString(d.whole) \o "."
         \o DigitsFmt(Shortest(Dec(d.bits), PowHalf(Len(d.bits) + 1), 1), 1)

\* write!(f, "{}", x) of an f64: no fraction for a whole number, no exponent.
F64Display(d) ==
    IF IsZero(d.bits) THEN ToString(d.whole)
    ELSE ToString(d.whole) \o "."
         \o DigitsFmt(Shortest(Dec(d.bits), PowHalf(Len(d.bits) + 1), 1), 1)

ExtInfPREFIX == "#EXTINF:"

\* secs as f64 + subsec_nanos as f64 / 1e9, written with `{}`.
ExtInfFmt(t) ==
    ExtInfPREFIX
    \o F64Display(F64Add(t.duration.secs, F64NanosAsSecs(t.duration.nanos)))
    \o (IF t.title # None THEN "," \o Unwrap(t.title) ELSE "")

\* Duration::new(duration as u64, (duration.fract() * 1e9) as u32)
ExtInfNew(d, title) ==
    IF ~d.ok THEN Err
    ELSE IF ~title.ok THEN Err
    ELSE Ok([duration |-> DurationNew(d.v.whole, FractNanos(d.v.bits)),
             title |-> title.v])

ExtInfTitle(m) == IF m.ok THEN Ok(Some(m.v)) ELSE Err

\* splitn(2, ','): the duration, and the title when a comma follows.
ExtInfTokens(suffix, comma) ==
    IF comma = 0 THEN ExtInfNew(F64Parse(suffix), Ok(None))
    ELSE ExtInfNew(F64Parse(SubSeq(suffix, 1, comma - 1)),
                   ExtInfTitle(M3u8StringNew(SplitAt1(suffix, comma))))

ExtInfSuffix(suffix) == ExtInfTokens(suffix, IndexOf(suffix, ",", 1))

ExtInfFromStr(s) ==
    IF ~StartsWith(s, ExtInfPREFIX) THEN Err
    ELSE ExtInfSuffix(SplitAt1(s, Len(ExtInfPREFIX)))

ExtXByteRangePREFIX == "#EXT-X-BYTERANGE:"

\* ExtXByteRangeFmt with an absent offset written as @0.
ExtXByteRangeFmtAlwaysOffset(t) ==
    ExtXByteRangePREFIX \o ToString(t.length) \o "@" \o ToString(UnwrapOr(t.offset, 0))

ExtXByteRangeFmt(t) ==
    ExtXByteRangePREFIX \o ToString(t.length)
    \o (IF t.offset # None THEN "@" \o ToString(Unwrap(t.offset)) ELSE "")

ExtXByteRangeNew(length, offset) ==
    IF ~length.ok THEN Err
    ELSE IF ~offset.ok THEN Err
    ELSE Ok([length |-> length.v, offset |-> offset.v])

ExtXByteRangeOffset(o) == IF o.ok THEN Ok(Some(o.v)) ELSE Err

\* splitn(2, '@'): the length, and the offset when an @ follows.
ExtXByteRangeTokens(suffix, at) ==
    IF at = 0 THEN ExtXByteRangeNew(IntFromStr(suffix), Ok(None))
    ELSE ExtXByteRangeNew(IntFromStr(SubSeq(suffix, 1, at - 1)),
                          ExtXByteRangeOffset(IntFromStr(SplitAt1(suffix, at))))

ExtXByteRangeSuffix(suffix) == ExtXByteRangeTokens(suffix, IndexOf(suffix, "@", 1))

ExtXByteRangeFromStr(s) ==
    IF ~StartsWith(s, ExtXByteRangePREFIX) THEN Err
    ELSE ExtXByteRangeSuffix(SplitAt1(s, Len(ExtXByteRangePREFIX)))

ExtXDiscontinuityPREFIX == "#EXT-X-DISCONTINUITY"
ExtXDiscontinuityFmt(t) == ExtXDiscontinuityPREFIX
ExtXDiscontinuityFromStr(s) == IF s = ExtXDiscontinuityPREFIX THEN Ok(Unit) ELSE Err

ExtXProgramDateTimePREFIX == "#EXT-X-PROGRAM-DATE-TIME:"
ExtXProgramDateTimeFmt(t) == ExtXProgramDateTimePREFIX \o t.date_time_msec
ExtXProgramDateTimeFromStr(s) ==
    IF ~StartsWith(s, ExtXProgramDateTimePREFIX) THEN Err
    ELSE Ok([date_time_msec |-> SplitAt1(s, Len(ExtXProgramDateTimePREFIX))])

ExtXTargetDurationPREFIX == "#EXT-X-TARGETDURATION:"
\* duration.as_secs()
ExtXTargetDurationFmt(t) == ExtXTargetDurationPREFIX \o ToString(t.duration.secs)
\* Duration::from_secs of the parsed u64
\* ExtXTargetDurationNew with the error of the integer parse passed on as it
\* is, not turned into InvalidInput.
ExtXTargetDurationNewRawError(d) ==
    IF d.ok THEN Ok([duration |-> [secs |-> d.v, nanos |-> 0]])
    ELSE [ok |-> FALSE, kind |-> "ParseIntError"]

ExtXTargetDurationNew(d) ==
    IF d.ok THEN Ok([duration |-> [secs |-> d.v, nanos |-> 0]]) ELSE Err
ExtXTargetDurationFromStr(s) ==
    IF ~StartsWith(s, ExtXTargetDurationPREFIX) THEN Err
    ELSE ExtXTargetDurationNew(IntFromStr(SplitAt1(s, Len(ExtXTargetDurationPREFIX))))

ExtXMediaSequencePREFIX == "#EXT-X-MEDIA-SEQUENCE:"
ExtXMediaSequenceFmt(t) == ExtXMediaSequencePREFIX \o ToString(t.seq_num)
ExtXMediaSequenceNew(n) == IF n.ok THEN Ok([seq_num |-> n.v]) ELSE Err
ExtXMediaSequenceFromStr(s) ==
    IF ~StartsWith(s, ExtXMediaSequencePREFIX) THEN Err
    ELSE ExtXMediaSequenceNew(IntFromStr(SplitAt1(s, Len(ExtXMediaSequencePREFIX))))

ExtXDiscontinuitySequencePREFIX == "#EXT-X-DISCONTINUITY-SEQUENCE:"
ExtXDiscontinuitySequenceFmt(t) == ExtXDiscontinuitySequencePREFIX \o ToString(t.seq_num)
ExtXDiscontinuitySequenceNew(n) == IF n.ok THEN Ok([seq_num |-> n.v]) ELSE Err
ExtXDiscontinuitySequenceFromStr(s) ==
    IF ~StartsWith(s, ExtXDiscontinuitySequencePREFIX) THEN Err
    ELSE ExtXDiscontinuitySequenceNew(
             IntFromStr(SplitAt1(s, Len(ExtXDiscontinuitySequencePREFIX))))

ExtXEndListPREFIX == "#EXT-X-ENDLIST"
ExtXEndListFmt(t) == ExtXEndListPREFIX
ExtXEndListFromStr(s) == IF s = ExtXEndListPREFIX THEN Ok(Unit) ELSE Err

ExtXPlaylistTypePREFIX == "#EXT-X-PLAYLIST-TYPE:"
ExtXPlaylistTypeFmt(t) == ExtXPlaylistTypePREFIX \o PlaylistTypeFmt(t.playlist_type)
ExtXPlaylistTypeNew(p) == IF p.ok THEN Ok([playlist_type |-> p.v]) ELSE Err
ExtXPlaylistTypeFromStr(s) ==
    IF ~StartsWith(s, ExtXPlaylistTypePREFIX) THEN Err
    ELSE ExtXPlaylistTypeNew(PlaylistTypeFromStr(SplitAt1(s, Len(ExtXPlaylistTypePREFIX))))

ExtXIFramesOnlyPREFIX == "#EXT-X-I-FRAMES-ONLY"
ExtXIFramesOnlyFmt(t) == ExtXIFramesOnlyPREFIX
\* ExtXIFramesOnly::from_str with the test of the other variants: the line
\* starts with the prefix.
ExtXIFramesOnlyFromStrPrefix(s) ==
    IF StartsWith(s, ExtXIFramesOnlyPREFIX) THEN Ok(Unit) ELSE Err

ExtXIFramesOnlyFromStr(s) == IF s = ExtXIFramesOnlyPREFIX THEN Ok(Unit) ELSE Err

ExtXIndependentSegmentsPREFIX == "#EXT-X-INDEPENDENT-SEGMENTS"
ExtXIndependentSegmentsFmt(t) == ExtXIndependentSegmentsPREFIX
ExtXIndependentSegmentsFromStr(s) ==
    IF s = ExtXIndependentSegmentsPREFIX THEN Ok(Unit) ELSE Err

(***************************************************************************)
(* Tag: dispatch, serialization, classification.                           *)
(***************************************************************************)
\* The prefix tests of Tag::from_str, in the order of its if/else-if chain.
TagPrefixes == <<
    [variant |-> "ExtM3u", prefix |-> ExtM3uPREFIX],
    [variant |-> "ExtXVersion", prefix |-> ExtXVersionPREFIX],
    [variant |-> "ExtInf", prefix |-> ExtInfPREFIX],
    [variant |-> "ExtXByteRange", prefix |-> ExtXByteRangePREFIX],
    [variant |-> "ExtXDiscontinuity", prefix |-> ExtXDiscontinuityPREFIX],
    [variant |-> "ExtXKey", prefix |-> ExtXKeyPREFIX],
    [variant |-> "ExtXMap", prefix |-> ExtXMapPREFIX],
    [variant |-> "ExtXProgramDateTime", prefix |-> ExtXProgramDateTimePREFIX],
    [variant |-> "ExtXTargetDuration", prefix |-> ExtXTargetDurationPREFIX],
    [variant |-> "ExtXDateRange", prefix |-> ExtXDateRangePREFIX],
    [variant |-> "ExtXMediaSequence", prefix |-> ExtXMediaSequencePREFIX],
    [variant |-> "ExtXDiscontinuitySequence", prefix |-> ExtXDiscontinuitySequencePREFIX],
    [variant |-> "ExtXEndList", prefix |-> ExtXEndListPREFIX],
    [variant |-> "ExtXPlaylistType", prefix |-> ExtXPlaylistTypePREFIX],
    [variant |-> "ExtXIFramesOnly", prefix |-> ExtXIFramesOnlyPREFIX],
    [variant |-> "ExtXMedia", prefix |-> ExtXMediaPREFIX],
    [variant |-> "ExtXStreamInf", prefix |-> ExtXStreamInfPREFIX],
    [variant |-> "ExtXIFrameStreamInf", prefix |-> ExtXIFrameStreamInfPREFIX],
    [variant |-> "ExtXSessionData", prefix |-> ExtXSessionDataPREFIX],
    [variant |-> "ExtXSessionKey", prefix |-> ExtXSessionKeyPREFIX],
    [variant |-> "ExtXIndependentSegments", prefix |-> ExtXIndependentSegmentsPREFIX],
    [variant |-> "ExtXStart", prefix |-> ExtXStartPREFIX] >>

\* s.parse() at the type of the variant v.
VariantFromStr(v, s) ==
    CASE v = "ExtM3u" -> ExtM3uFromStr(s)
      [] v = "ExtXVersion" -> ExtXVersionFromStr(s)
      [] v = "ExtInf" -> ExtInfFromStr(s)
      [] v = "ExtXByteRange" -> ExtXByteRangeFromStr(s)
      [] v = "ExtXDiscontinuity" -> ExtXDiscontinuityFromStr(s)
      [] v = "ExtXKey" -> ExtXKeyFromStr(s)
      [] v = "ExtXMap" -> ExtXMapFromStr(s)
      [] v = "ExtXProgramDateTime" -> ExtXProgramDateTimeFromStr(s)
      [] v = "ExtXTargetDuration" -> ExtXTargetDurationFromStr(s)
      [] v = "ExtXDateRange" -> ExtXDateRangeFromStr(s)
      [] v = "ExtXMediaSequence" -> ExtXMediaSequenceFromStr(s)
      [] v = "ExtXDiscontinuitySequence" -> ExtXDiscontinuitySequenceFromStr(s)
      [] v = "ExtXEndList" -> ExtXEndListFromStr(s)
      [] v = "ExtXPlaylistType" -> ExtXPlaylistTypeFromStr(s)
      [] v = "ExtXIFramesOnly" -> ExtXIFramesOnlyFromStr(s)
      [] v = "ExtXMedia" -> ExtXMediaFromStr(s)
      [] v = "ExtXStreamInf" -> ExtXStreamInfFromStr(s)
      [] v = "ExtXIFrameStreamInf" -> ExtXIFrameStreamInfFromStr(s)
      [] v = "ExtXSessionData" -> ExtXSessionDataFromStr(s)
      [] v = "ExtXSessionKey" -> ExtXSessionKeyFromStr(s)
      [] v = "ExtXIndependentSegments" -> ExtXIndependentSegmentsFromStr(s)
      [] v = "ExtXStart" -> ExtXStartFromStr(s)

\* The indices of the prefix tests that s passes.
MatchingPrefixes(s) == {i \in 1..Len(TagPrefixes) : StartsWith(s, TagPrefixes[i].prefix)}

\* The first prefix test of the chain that s passes.
FirstMatch(s) == CHOOSE i \in MatchingPrefixes(s) : \A j \in MatchingPrefixes(s) : i <= j

\* Tag::from_str: the first matching prefix decides the variant,
\* `s.parse().map(Tag::V)`; no prefix matches: track_panic!(InvalidInput).
\* s.parse().map(Tag::V)
TagMap(v, r) == IF r.ok THEN Ok([variant |-> v, t |-> r.v]) ELSE r

TagParseAs(v, s) == TagMap(v, VariantFromStr(v, s))

\* Tag::from_str with a line of no known prefix taken for a marker instead
\* of refused.
TagFromStrIgnoreUnknown(s) ==
    IF MatchingPrefixes(s) = {} THEN Ok([variant |-> "ExtM3u", t |-> Unit])
    ELSE TagParseAs(TagPrefixes[FirstMatch(s)].variant, s)

TagFromStr(s) ==
    IF MatchingPrefixes(s) = {} THEN Err
    ELSE TagParseAs(TagPrefixes[FirstMatch(s)].variant, s)

\* impl Display for Tag
TagFmtAs(v, t) ==
    CASE v = "ExtM3u" -> ExtM3uFmt(t)
      [] v = "ExtXVersion" -> ExtXVersionFmt(t)
      [] v = "ExtInf" -> ExtInfFmt(t)
      [] v = "ExtXByteRange" -> ExtXByteRangeFmt(t)
      [] v = "ExtXDiscontinuity" -> ExtXDiscontinuityFmt(t)
      [] v = "ExtXKey" -> ExtXKeyFmt(t)
      [] v = "ExtXMap" -> ExtXMapFmt(t)
      [] v = "ExtXProgramDateTime" -> ExtXProgramDateTimeFmt(t)
      [] v = "ExtXDateRange" -> ExtXDateRangeFmt(t)
      [] v = "ExtXTargetDuration" -> ExtXTargetDurationFmt(t)
      [] v = "ExtXMediaSequence" -> ExtXMediaSequenceFmt(t)
      [] v = "ExtXDiscontinuitySequence" -> ExtXDiscontinuitySequenceFmt(t)
      [] v = "ExtXEndList" -> ExtXEndListFmt(t)
      [] v = "ExtXPlaylistType" -> ExtXPlaylistTypeFmt(t)
      [] v = "ExtXIFramesOnly" -> ExtXIFramesOnlyFmt(t)
      [] v = "ExtXMedia" -> ExtXMediaFmt(t)
      [] v = "ExtXStreamInf" -> ExtXStreamInfFmt(t)
      [] v = "ExtXIFrameStreamInf" -> ExtXIFrameStreamInfFmt(t)
      [] v = "ExtXSessionData" -> ExtXSessionDataFmt(t)
      [] v = "ExtXSessionKey" -> ExtXSessionKeyFmt(t)
      [] v = "ExtXIndependentSegments" -> ExtXIndependentSegmentsFmt(t)
      [] v = "ExtXStart" -> ExtXStartFmt(t)

TagFmt(tag) == TagFmtAs(tag.variant, tag.t)

\* Tag::kind
TagKindOf(v) ==
    CASE v \in {"ExtM3u", "ExtXVersion"} -> "Basic"
      [] v \in {"ExtInf", "ExtXByteRange", "ExtXDiscontinuity", "ExtXKey", "ExtXMap",
                "ExtXProgramDateTime", "ExtXDateRange"} -> "MediaSegment"
      [] v \in {"ExtXTargetDuration", "ExtXMediaSequence", "ExtXDiscontinuitySequence",
                "ExtXEndList", "ExtXPlaylistType", "ExtXIFramesOnly"} -> "MediaPlaylist"
      [] v \in {"ExtXMedia", "ExtXStreamInf", "ExtXIFrameStreamInf", "ExtXSessionData",
                "ExtXSessionKey"} -> "MasterPlaylist"
      [] v \in {"ExtXIndependentSegments", "ExtXStart"} -> "MediaOrMasterPlaylist"

\* Tag::kind looking into the payload: a start tag with PRECISE=YES classed
\* apart from the other start tags.
TagKindByPayload(tag) ==
    IF tag.variant = "ExtXStart" /\ tag.t.precise = "Yes" THEN "MediaPlaylist"
    ELSE TagKindOf(tag.variant)

TagKind(tag) == TagKindOf(tag.variant)

(***************************************************************************)
(* MediaSegmentTag: the sum of the seven tags of a media segment.          *)
(***************************************************************************)
MediaSegmentTagVariants ==
    {"ExtInf", "ExtXByteRange", "ExtXDateRange", "ExtXDiscontinuity", "ExtXKey", "ExtXMap",
     "ExtXProgramDateTime"}

\* impl From<V> for MediaSegmentTag
MediaSegmentTagFrom(v, t) == [variant |-> v, t |-> t]

\* if let MediaSegmentTag::V(ref t) = *self { Some(t) } else { None }
as_inf(m) == IF m.variant = "ExtInf" THEN Some(m.t) ELSE None
as_byte_range(m) == IF m.variant = "ExtXByteRange" THEN Some(m.t) ELSE None
as_date_range(m) == IF m.variant = "ExtXDateRange" THEN Some(m.t) ELSE None
as_discontinuity(m) == IF m.variant = "ExtXDiscontinuity" THEN Some(m.t) ELSE None

\* as_key answering for a map tag as well.
as_key_or_map(m) == IF m.variant \in {"ExtXKey", "ExtXMap"} THEN Some(m.t) ELSE None

as_key(m) == IF m.variant = "ExtXKey" THEN Some(m.t) ELSE None
as_map(m) == IF m.variant = "ExtXMap" THEN Some(m.t) ELSE None
as_program_date_time(m) == IF m.variant = "ExtXProgramDateTime" THEN Some(m.t) ELSE None

\* What the seven accessors return for m.
Accessors(m) ==
    [as_inf |-> as_inf(m), as_byte_range |-> as_byte_range(m),
     as_date_range |-> as_date_range(m), as_discontinuity |-> as_discontinuity(m),
     as_key |-> as_key(m), as_map |-> as_map(m),
     as_program_date_time |-> as_program_date_time(m)]

(***************************************************************************)
(* Input lines.  An attribute-list line is the variant's prefix and up to  *)
(* MaxAttrs pairs of the variant's pool, in the pool's order or reversed;  *)
(* a scalar line is the prefix and one body of the variant's pool; the     *)
(* other lines start with no prefix of a variant.                          *)
(***************************************************************************)
AttrVariants == {"ExtXKey", "ExtXMap", "ExtXDateRange", "ExtXMedia", "ExtXStreamInf",
                 "ExtXIFrameStreamInf", "ExtXSessionData", "ExtXSessionKey", "ExtXStart"}

ScalarVariants == {TagPrefixes[i].variant : i \in 1..Len(TagPrefixes)} \ AttrVariants

PrefixOf(v) ==
    IF v = "Other" THEN ""
    ELSE TagPrefixes[CHOOSE i \in 1..Len(TagPrefixes) : TagPrefixes[i].variant = v].prefix

ArmsOf(v) ==
    CASE v = "ExtXKey" -> ExtXKeyArms
      [] v = "ExtXMap" -> ExtXMapArms
      [] v = "ExtXDateRange" -> ExtXDateRangeArms
      [] v = "ExtXMedia" -> ExtXMediaArms
      [] v = "ExtXStreamInf" -> ExtXStreamInfArms
      [] v = "ExtXIFrameStreamInf" -> ExtXIFrameStreamInfArms
      [] v = "ExtXSessionData" -> ExtXSessionDataArms
      [] v = "ExtXSessionKey" -> ExtXSessionKeyArms
      [] v = "ExtXStart" -> ExtXStartArms

AttrPool(v) ==
    CASE v = "ExtXKey" ->
            << "METHOD=NONE", "METHOD=AES-128", "METHOD=SAMPLE-AES", "URI=\"k\"",
               "IV=0x0a1B", "KEYFORMAT=\"f\"", "KEYFORMATVERSIONS=\"1\"" >>
      [] v = "ExtXMap" ->
            << "URI=\"m\"", "URI=\"n\"", "BYTERANGE=\"1@0\"" >>
      [] v = "ExtXDateRange" ->
            << "ID=\"d\"", "ID=\"e\"", "START-DATE=\"s\"", "CLASS=\"c\"",
               "END-ON-NEXT=YES", "DURATION=1.5" >>
      [] v = "ExtXMedia" ->
            << "TYPE=AUDIO", "TYPE=SUBTITLES", "TYPE=CLOSED-CAPTIONS", "GROUP-ID=\"g\"",
               "NAME=\"n\"", "URI=\"u\"", "INSTREAM-ID=\"CC1\"", "FORCED=YES",
               "FORCED=NO", "DEFAULT=YES", "DEFAULT=NO", "AUTOSELECT=NO" >>
      [] v = "ExtXStreamInf" ->
            << "BANDWIDTH=1", "BANDWIDTH=2", "CODECS=\"a,b\"", "RESOLUTION=2x1",
               "FRAME-RATE=1.5", "HDCP-LEVEL=NONE", "CLOSED-CAPTIONS=NONE" >>
      [] v = "ExtXIFrameStreamInf" ->
            << "URI=\"i\"", "BANDWIDTH=1", "BANDWIDTH=2", "VIDEO=\"v\"",
               "HDCP-LEVEL=TYPE-0" >>
      [] v = "ExtXSessionData" ->
            << "DATA-ID=\"x\"", "VALUE=\"v\"", "VALUE=\"w\"", "URI=\"u\"",
               "LANGUAGE=\"l\"" >>
      [] v = "ExtXSessionKey" ->
            << "METHOD=AES-128", "METHOD=NONE", "URI=\"k\"", "URI=\"j\"", "IV=0x0a1B",
               "METHOD=SAMPLE-AES" >>
      [] v = "ExtXStart" ->
            << "TIME-OFFSET=1.5", "TIME-OFFSET=-2", "PRECISE=YES", "PRECISE=NO" >>

ScalarPool(v) ==
    CASE v = "ExtM3u" -> {"", "X"}
      [] v = "ExtXVersion" -> {"1", "7", "8", "x"}
      [] v = "ExtInf" ->
            {"6", "1.5", "1.5,title", "x", "2,a,b", "6.006", "6.0", "4.35", "1.001"}
      [] v = "ExtXByteRange" ->
            {"10@5", "10", "0", "0@0", "+7", "a", "10@", "007",
             "18446744073709551616", "1@18446744073709551616"}
      [] v = "ExtXDiscontinuity" -> {"", "X"}
      [] v = "ExtXProgramDateTime" -> {"2010-02-19T14:54:23.031+08:00", ""}
      [] v = "ExtXTargetDuration" -> {"10", "x", "1.5"}
      [] v = "ExtXMediaSequence" -> {"0", "7", "x"}
      [] v = "ExtXDiscontinuitySequence" -> {"0", "3"}
      [] v = "ExtXEndList" -> {"", ":1"}
      [] v = "ExtXPlaylistType" -> {"EVENT", "VOD", "event"}
      [] v = "ExtXIFramesOnly" -> {"", "X"}
      [] v = "ExtXIndependentSegments" -> {"", "X"}

\* Lines that are no tag of the format.
OtherPool == {"", "#EXT", "#EXT-X-FOO:1", "#EXT-X-MEDIA", "#ext-x-endlist", "EXTM3U",
              "#EXT-X-KEY", "segment.ts"}

\* Pairs whose key no variant knows.
UnknownPairs == {"X-A=1", "X-B=\"a,b\""}

\* The pairs of the pool at the indices S, in ascending or descending order.
RECURSIVE Ordered(_, _, _)
Ordered(pool, S, rev) ==
    IF S = {} THEN <<>>
    ELSE LET i == CHOOSE k \in S : \A j \in S : IF rev THEN k >= j ELSE k <= j
         IN  <<pool[i]>> \o Ordered(pool, S \ {i}, rev)

AttrBodies(v) ==
    {Ordered(AttrPool(v), S, rev) :
        S \in {T \in SUBSET (1..Len(AttrPool(v))) : Cardinality(T) <= MaxAttrs},
        rev \in BOOLEAN}

Bodies(v) ==
    IF v \in AttrVariants THEN AttrBodies(v)
    ELSE IF v = "Other" THEN {<<x>> : x \in OtherPool}
    ELSE {<<x>> : x \in ScalarPool(v)}

LineOf(v, b) == PrefixOf(v) \o Join(b, ",")

\* The body with the pair p inserted after its first k items.
\* The variants with a Duration field, and the durations a caller builds them
\* with: whole seconds and fractions that an f64 holds exactly.
DurationVariants == {"ExtInf", "ExtXTargetDuration", "ExtXDateRange"}

DurationPool ==
    { [secs |-> 2, nanos |-> 0],
      [secs |-> 1, nanos |-> 500000000],
      [secs |-> 0, nanos |-> 250000000] }

\* The structs have public fields: any field values make a tag.
BuiltTags(v) ==
    CASE v = "ExtInf" ->
            {[variant |-> v, t |-> [duration |-> d, title |-> None]] :
                d \in DurationPool \cup {[secs |-> 1, nanos |-> 118000000]}}
      [] v = "ExtXTargetDuration" ->
            {[variant |-> v, t |-> [duration |-> d]] : d \in DurationPool}
      [] v = "ExtXDateRange" ->
            {[variant |-> v,
              t |-> [id |-> "d", class |-> None, start_date |-> "s", end_date |-> None,
                     duration |-> Some(d), planned_duration |-> Some(d),
                     scte35_cmd |-> None, scte35_out |-> None, scte35_in |-> None,
                     end_on_next |-> None]] : d \in DurationPool}

\* A tag, the line written for it and the parse of that line.
Written(tag, o) ==
    [op |-> "to_string_parse", v |-> tag, out |-> o, back |-> TagFromStr(o)]

\* The list b with its items i and j exchanged.
Swap(b, i, j) == [b EXCEPT ![i] = b[j], ![j] = b[i]]

InsertAt(b, k, p) == SubSeq(b, 1, k) \o <<p>> \o SubSeq(b, k + 1, Len(b))

(***************************************************************************)
(* The state machine.                                                      *)
(***************************************************************************)
NoResult == [ok |-> FALSE, kind |-> "none"]
NoCall == [op |-> "none"]

\* A line and its parse.
ParsedLine(l) == [line |-> l, res |-> TagFromStr(l)]

Init ==
    /\ variant \in AttrVariants \cup ScalarVariants \cup {"Other"}
    /\ body \in Bodies(variant)
    /\ line = LineOf(variant, body)
    /\ pc = "input"
    /\ res = NoResult
    /\ out = ""
    /\ res2 = NoResult
    /\ alt = [line |-> "", res |-> NoResult]
    /\ obs = NoCall

\* let tag = line.parse::<Tag>()
Parse ==
    /\ pc = "input"
    /\ res' = TagFromStr(line)
    /\ pc' = "parsed"
    /\ UNCHANGED <<variant, body, line, out, res2, alt, obs>>

\* let out = tag.to_string()
Serialize ==
    /\ pc = "parsed"
    /\ res.ok
    /\ out' = TagFmt(res.v)
    /\ pc' = "serialized"
    /\ UNCHANGED <<variant, body, line, res, res2, alt, obs>>

\* out.parse::<Tag>()
Reparse ==
    /\ pc = "serialized"
    /\ res2' = TagFromStr(out)
    /\ pc' = "reparsed"
    /\ UNCHANGED <<variant, body, line, res, out, alt, obs>>

\* The input line with a pair of an unknown key inserted at some position
\* of its attribute list, parsed.
InsertUnknown ==
    /\ pc = "parsed"
    /\ variant \in AttrVariants
    /\ \E k \in 0..Len(body), p \in UnknownPairs :
          alt' = ParsedLine(LineOf(variant, InsertAt(body, k, p)))
    /\ pc' = "inserted"
    /\ UNCHANGED <<variant, body, line, res, out, res2, obs>>

\* tag.compatibility_version() of a parsed ExtXKey
CompatibilityVersion ==
    /\ pc = "parsed"
    /\ res.ok
    /\ res.v.variant = "ExtXKey"
    /\ obs' = [op |-> "compatibility_version", v |-> ExtXKeyCompatibilityVersion(res.v.t)]
    /\ pc' = "observed"
    /\ UNCHANGED <<variant, body, line, res, out, res2, alt>>

\* The input line with two pairs of its attribute list exchanged, parsed.
Reorder ==
    /\ pc = "parsed"
    /\ variant \in AttrVariants
    /\ \E i, j \in 1..Len(body) :
          /\ i < j
          /\ alt' = ParsedLine(LineOf(variant, Swap(body, i, j)))
    /\ pc' = "reordered"
    /\ UNCHANGED <<variant, body, line, res, out, res2, obs>>

\* A tag built by the caller from its public fields, written and parsed:
\* tag.to_string().parse::<Tag>()
ToStringParse ==
    /\ pc = "input"
    /\ variant \in DurationVariants
    /\ \E tag \in BuiltTags(variant) : obs' = Written(tag, TagFmt(tag))
    /\ pc' = "observed"
    /\ UNCHANGED <<variant, body, line, res, out, res2, alt>>

\* tag.kind() of a parsed tag
Kind ==
    /\ pc = "parsed"
    /\ res.ok
    /\ obs' = [op |-> "kind", v |-> TagKind(res.v)]
    /\ pc' = "observed"
    /\ UNCHANGED <<variant, body, line, res, out, res2, alt>>

\* The unit structs: tags without a value.
MarkerVariants == {"ExtM3u", "ExtXDiscontinuity", "ExtXEndList", "ExtXIFramesOnly",
                   "ExtXIndependentSegments"}

\* The variants tried on the line l: those whose prefix l has, and every
\* marker when l is no tag of the format.
VariantsTried(l) ==
    MatchingPrefixes(l)
    \cup (IF variant = "Other"
          THEN {i \in 1..Len(TagPrefixes) : TagPrefixes[i].variant \in MarkerVariants}
          ELSE {})

\* line.parse::<V>() for a variant V
ParseVariant ==
    /\ pc = "parsed"
    /\ \E i \in VariantsTried(line) :
          obs' = [op |-> "parse_variant", variant |-> TagPrefixes[i].variant,
                  r |-> VariantFromStr(TagPrefixes[i].variant, line)]
    /\ pc' = "observed"
    /\ UNCHANGED <<variant, body, line, res, out, res2, alt>>

\* MediaSegmentTag::from(t) of the value t of a parsed tag, and the seven
\* accessors called on it.
AsMediaSegmentTag ==
    /\ pc = "parsed"
    /\ res.ok
    /\ res.v.variant \in MediaSegmentTagVariants
    /\ obs' = [op |-> "accessors",
               m |-> MediaSegmentTagFrom(res.v.variant, res.v.t),
               got |-> Accessors(MediaSegmentTagFrom(res.v.variant, res.v.t))]
    /\ pc' = "observed"
    /\ UNCHANGED <<variant, body, line, res, out, res2, alt>>

Next ==
    \/ Parse \/ Serialize \/ Reparse \/ InsertUnknown \/ CompatibilityVersion \/ Reorder
    \/ ToStringParse \/ Kind \/ ParseVariant \/ AsMediaSegmentTag

Spec == Init /\ [][Next]_vars

(***************************************************************************)
(* The enumerated tokens on their own: a string parsed at an enumerated    *)
(* type, and a value of the type written and parsed.                       *)
(***************************************************************************)
EnumTypes ==
    {"EncryptionMethod", "SessionEncryptionMethod", "PlaylistType", "MediaType",
     "YesOrNo", "Yes", "HdcpLevel"}

\* The variants of the enum declarations.
EnumValues(ty) ==
    CASE ty = "EncryptionMethod" -> {"None", "Aes128", "SampleAes"}
      [] ty = "SessionEncryptionMethod" -> {"Aes128", "SampleAes"}
      [] ty = "PlaylistType" -> {"Event", "Vod"}
      [] ty = "MediaType" -> {"Audio", "Video", "Subtitles", "ClosedCaptions"}
      [] ty = "YesOrNo" -> {"Yes", "No"}
      [] ty = "Yes" -> {"Yes"}
      [] ty = "HdcpLevel" -> {"Type0", "None"}

\* s.parse::<T>() at the enumerated type ty
EnumFromStr(ty, s) ==
    CASE ty = "EncryptionMethod" -> EncryptionMethodFromStr(s)
      [] ty = "SessionEncryptionMethod" -> SessionEncryptionMethodFromStr(s)
      [] ty = "PlaylistType" -> PlaylistTypeFromStr(s)
      [] ty = "MediaType" -> MediaTypeFromStr(s)
      [] ty = "YesOrNo" -> YesOrNoFromStr(s)
      [] ty = "Yes" -> YesFromStr(s)
      [] ty = "HdcpLevel" -> HdcpLevelFromStr(s)

\* e.to_string() at the enumerated type ty
EnumFmt(ty, e) ==
    CASE ty = "EncryptionMethod" -> EncryptionMethodFmt(e)
      [] ty = "SessionEncryptionMethod" -> SessionEncryptionMethodFmt(e)
      [] ty = "PlaylistType" -> PlaylistTypeFmt(e)
      [] ty = "MediaType" -> MediaTypeFmt(e)
      [] ty = "YesOrNo" -> YesOrNoFmt(e)
      [] ty = "Yes" -> YesFmt(e)
      [] ty = "HdcpLevel" -> HdcpLevelFmt(e)

\* The vocabulary of every type, other spellings of it, and other strings.
Tokens ==
    {"NONE", "AES-128", "SAMPLE-AES", "EVENT", "VOD", "AUDIO", "VIDEO", "SUBTITLES",
     "CLOSED-CAPTIONS", "YES", "NO", "TYPE-0",
     "none", "None", "aes-128", "sample-aes", "event", "Vod", "audio", "Video",
     "subtitles", "closed-captions", "yes", "Yes", "no", "No", "type-0", "Type-0",
     "", " YES", "YES ", "\"YES\"", "AES128", "TYPE-1", "LIVE", "Y"}

EnumInit ==
    /\ variant \in EnumTypes
    /\ body = <<>>
    /\ \/ pc = "token" /\ line \in Tokens /\ res = NoResult
       \/ pc = "value" /\ line = "" /\ res \in {Ok(e) : e \in EnumValues(variant)}
    /\ out = ""
    /\ res2 = NoResult
    /\ alt = [line |-> "", res |-> NoResult]
    /\ obs = NoCall

\* line.parse::<T>()
ParseToken ==
    /\ pc = "token"
    /\ res' = EnumFromStr(variant, line)
    /\ pc' = "token_parsed"
    /\ UNCHANGED <<variant, body, line, out, res2, alt, obs>>

\* value.to_string()
FormatValue ==
    /\ pc \in {"value", "token_parsed"}
    /\ res.ok
    /\ out' = EnumFmt(variant, res.v)
    /\ pc' = "formatted"
    /\ UNCHANGED <<variant, body, line, res, res2, alt, obs>>

\* out.parse::<T>()
ParseFormatted ==
    /\ pc = "formatted"
    /\ res2' = EnumFromStr(variant, out)
    /\ pc' = "format_parsed"
    /\ UNCHANGED <<variant, body, line, res, out, alt, obs>>

EnumNext == ParseToken \/ FormatValue \/ ParseFormatted

EnumSpec == EnumInit /\ [][EnumNext]_vars

(***************************************************************************)
(* What the claims speak of.                                               *)
(***************************************************************************)
\* The attribute name of a pair of the input.
KeyOf(item) == SubSeq(item, 1, IndexOf(item, "=", 1) - 1)
ValueOf(item) == SplitAt1(item, IndexOf(item, "=", 1))

BodyKeys == {KeyOf(body[i]) : i \in 1..Len(body)}
HasKey(k) == k \in BodyKeys
HasItem(item) == \E i \in 1..Len(body) : body[i] = item
ItemsOf(k) == {body[i] : i \in {j \in 1..Len(body) : KeyOf(body[j]) = k}}

Parsed == pc # "input"
AttrLine == Parsed /\ variant \in AttrVariants

\* The tags some parse of the behaviour has returned.
TagsReturned == {r.v : r \in {x \in {res, res2, alt.res} : x.ok}}
TagsOf(v) == {tag.t : tag \in {x \in TagsReturned : x.variant = v}}

\* C1: parse(serialize(parse(s))) = parse(s) for every line s that Tag
\* parse accepts: the serialized tag parses again, to an equal tag.
C1_RoundTrip == pc = "reparsed" => (res2.ok /\ res2.v = res.v)

\* C2: at most one of the prefixes tested by Tag parse is a prefix of the
\* line, and whichever matching prefix is taken gives the same result.
C2_PrefixDisjoint ==
    Parsed =>
        /\ Cardinality(MatchingPrefixes(line)) <= 1
        /\ \A i \in MatchingPrefixes(line) : TagParseAs(TagPrefixes[i].variant, line) = res

\* C3: a line that starts with none of the variant prefixes fails with
\* InvalidInput and gives no tag.
C3_UnknownTagFails ==
    (Parsed /\ \A i \in 1..Len(TagPrefixes) : ~StartsWith(line, TagPrefixes[i].prefix))
        => (~res.ok /\ res.kind = "InvalidInput")

C3_Witness ==
    pc = "parsed" /\ line = "#EXT-X-FOO:1" /\ ~res.ok /\ res.kind = "InvalidInput"

\* The required attributes of the attribute-list variants, as C4 lists them.
C4_Required(v) ==
    CASE v = "ExtXKey" -> {"METHOD"}
      [] v = "ExtXMap" -> {"URI"}
      [] v = "ExtXDateRange" -> {"ID", "START-DATE"}
      [] v = "ExtXMedia" -> {"TYPE", "GROUP-ID", "NAME"}
      [] v = "ExtXStreamInf" -> {"BANDWIDTH"}
      [] v = "ExtXIFrameStreamInf" -> {"URI", "BANDWIDTH"}
      [] v = "ExtXSessionData" -> {"DATA-ID"}
      [] v = "ExtXSessionKey" -> {"METHOD", "URI"}
      [] v = "ExtXStart" -> {"TIME-OFFSET"}

\* C4: the parse of an attribute-list line fails whenever a required
\* attribute of its variant is absent from the list.
C4_MissingRequiredFails ==
    (AttrLine /\ \E k \in C4_Required(variant) : ~HasKey(k)) => ~res.ok

C4_Witness ==
    /\ pc = "parsed" /\ variant = "ExtXMedia"
    /\ HasKey("TYPE") /\ HasKey("GROUP-ID") /\ ~HasKey("NAME")
    /\ ~res.ok

\* C5: an attribute-list line in which a known attribute name appears twice
\* is rejected.
C5_DuplicateRejected ==
    (AttrLine /\ \E i, j \in 1..Len(body) :
                    /\ i < j
                    /\ KeyOf(body[i]) = KeyOf(body[j])
                    /\ KeyOf(body[i]) \in ArmKeys(ArmsOf(variant)))
        => ~res.ok

\* C6: a pair of an unknown key inserted at any position of the attribute
\* list does not change the outcome of the parse.
C6_UnknownIgnored == pc = "inserted" => alt.res = res

C6_Witness ==
    /\ pc = "inserted"
    /\ alt.line = "#EXT-X-KEY:METHOD=AES-128,X-B=\"a,b\",URI=\"k\""
    /\ res.ok /\ alt.res = res

\* C7: an #EXT-X-KEY line fails if METHOD=NONE comes with a URI, and if
\* METHOD is AES-128 or SAMPLE-AES without a URI; every parsed ExtXKey has
\* method None exactly when it has no uri.
C7_KeyMethodUri ==
    /\ (Parsed /\ variant = "ExtXKey" /\ HasItem("METHOD=NONE") /\ HasKey("URI")) => ~res.ok
    /\ (Parsed /\ variant = "ExtXKey" /\ ~HasKey("URI")
          /\ (HasItem("METHOD=AES-128") \/ HasItem("METHOD=SAMPLE-AES"))) => ~res.ok
    /\ \A t \in TagsOf("ExtXKey") : (t.method = "None") <=> (t.uri = None)

C7_Witness ==
    /\ pc = "parsed" /\ variant = "ExtXKey"
    /\ body = <<"METHOD=NONE", "URI=\"k\"">>
    /\ ~res.ok

\* C8: an #EXT-X-SESSION-DATA line fails with neither VALUE nor URI and with
\* both, in either order; a parsed ExtXSessionData holds Value(v) exactly
\* when only VALUE was given and Uri(u) exactly when only URI was given.
C8_SessionDataOneOf ==
    (Parsed /\ variant = "ExtXSessionData") =>
        /\ (~HasKey("VALUE") /\ ~HasKey("URI")) => ~res.ok
        /\ (HasKey("VALUE") /\ HasKey("URI")) => ~res.ok
        /\ res.ok =>
              /\ (res.v.t.data.case = "Value") <=> (HasKey("VALUE") /\ ~HasKey("URI"))
              /\ (res.v.t.data.case = "Uri") <=> (HasKey("URI") /\ ~HasKey("VALUE"))
              /\ res.v.t.data.case = "Value" =>
                    QuotedStringFmt(res.v.t.data.x) \in {ValueOf(x) : x \in ItemsOf("VALUE")}
              /\ res.v.t.data.case = "Uri" =>
                    QuotedStringFmt(res.v.t.data.x) \in {ValueOf(x) : x \in ItemsOf("URI")}

C8_Witness ==
    /\ pc = "parsed" /\ variant = "ExtXSessionData"
    /\ body = <<"URI=\"u\"", "VALUE=\"v\"", "DATA-ID=\"x\"">>
    /\ ~res.ok

\* Every TYPE pair of the input names the media type ty / none does.
AllTypes(ty) == HasKey("TYPE") /\ ItemsOf("TYPE") = {"TYPE=" \o ty}
NoType(ty) == ~HasItem("TYPE=" \o ty)

\* C9: with TYPE=CLOSED-CAPTIONS an #EXT-X-MEDIA line parses only if URI and
\* INSTREAM-ID are both present; with another TYPE it fails if INSTREAM-ID
\* is present; every parsed ExtXMedia satisfies this relation.
C9_MediaClosedCaptions ==
    /\ (Parsed /\ variant = "ExtXMedia" /\ AllTypes("CLOSED-CAPTIONS") /\ res.ok)
          => (HasKey("URI") /\ HasKey("INSTREAM-ID"))
    /\ (Parsed /\ variant = "ExtXMedia" /\ NoType("CLOSED-CAPTIONS") /\ HasKey("INSTREAM-ID"))
          => ~res.ok
    /\ \A t \in TagsOf("ExtXMedia") :
          IF t.media_type = "ClosedCaptions"
          THEN t.uri # None /\ t.instream_id # None
          ELSE t.instream_id = None

C9_Witness ==
    /\ pc = "parsed" /\ variant = "ExtXMedia"
    /\ AllTypes("CLOSED-CAPTIONS") /\ HasKey("URI") /\ HasKey("INSTREAM-ID")
    /\ res.ok /\ res.v.t.media_type = "ClosedCaptions" /\ res.v.t.instream_id = Some("CC1")

\* C10: an #EXT-X-MEDIA line with FORCED and a TYPE other than SUBTITLES
\* fails; every parsed ExtXMedia with forced present has type Subtitles.
C10_MediaForced ==
    /\ (Parsed /\ variant = "ExtXMedia" /\ HasKey("FORCED") /\ NoType("SUBTITLES")) => ~res.ok
    /\ \A t \in TagsOf("ExtXMedia") : t.forced # None => t.media_type = "Subtitles"

C10_Witness ==
    /\ pc = "parsed" /\ variant = "ExtXMedia"
    /\ body = <<"TYPE=AUDIO", "GROUP-ID=\"g\"", "NAME=\"n\"", "FORCED=YES">>
    /\ ~res.ok

\* C11: an #EXT-X-DATERANGE line with END-ON-NEXT and no CLASS fails; every
\* parsed ExtXDateRange with end_on_next present has class present.
C11_EndOnNextNeedsClass ==
    /\ (Parsed /\ variant = "ExtXDateRange" /\ HasKey("END-ON-NEXT") /\ ~HasKey("CLASS"))
          => ~res.ok
    /\ \A t \in TagsOf("ExtXDateRange") : t.end_on_next # None => t.class # None

C11_Witness ==
    /\ pc = "parsed" /\ variant = "ExtXDateRange"
    /\ body = <<"ID=\"d\"", "START-DATE=\"s\"", "END-ON-NEXT=YES">>
    /\ ~res.ok

\* C12: compatibility_version of a parsed ExtXKey is V5 if key_format or
\* key_format_versions is present, otherwise V2 if iv is present, otherwise
\* V1; in terms of the line: V5 with KEYFORMAT or KEYFORMATVERSIONS whether
\* or not IV is there, V2 with IV alone, V1 with neither.
C12_CompatibilityVersion ==
    (pc = "observed" /\ obs.op = "compatibility_version") =>
        /\ obs.v = (IF res.v.t.key_format # None \/ res.v.t.key_format_versions # None THEN 5
                    ELSE IF res.v.t.iv # None THEN 2
                    ELSE 1)
        /\ obs.v = (IF HasKey("KEYFORMAT") \/ HasKey("KEYFORMATVERSIONS") THEN 5
                    ELSE IF HasKey("IV") THEN 2
                    ELSE 1)

C12_Witness ==
    /\ pc = "observed" /\ obs.op = "compatibility_version"
    /\ body = <<"METHOD=AES-128", "URI=\"k\"", "IV=0x0a1B", "KEYFORMAT=\"f\"">>
    /\ obs.v = 5

\* The positions of s at which p occurs.
Occurrences(s, p) ==
    {i \in 1..Len(s) : i + Len(p) - 1 <= Len(s) /\ SubSeq(s, i, i + Len(p) - 1) = p}
HasSubstr(s, p) == Occurrences(s, p) # {}

Serialized == pc \in {"serialized", "reparsed"}

\* C13: an #EXT-X-START line without PRECISE parses to precise = No, the
\* value parsed from the same line with PRECISE=NO added; the serialized
\* line has a PRECISE attribute exactly when precise = Yes, and then it is
\* PRECISE=YES, once.
C13_StartPrecise ==
    /\ (Parsed /\ variant = "ExtXStart" /\ ~HasKey("PRECISE")) =>
          /\ res.ok => res.v.t.precise = "No"
          /\ \A k \in 0..Len(body) :
                TagFromStr(LineOf(variant, InsertAt(body, k, "PRECISE=NO"))) = res
    /\ (Serialized /\ res.v.variant = "ExtXStart") =>
          /\ HasSubstr(out, "PRECISE") <=> res.v.t.precise = "Yes"
          /\ res.v.t.precise = "Yes" =>
                /\ Cardinality(Occurrences(out, "PRECISE")) = 1
                /\ Occurrences(out, ",PRECISE=YES") = {Len(out) - 11}

C13_Witness ==
    /\ pc = "serialized" /\ variant = "ExtXStart"
    /\ body = <<"TIME-OFFSET=1.5">>
    /\ res.ok /\ res.v.t.precise = "No"
    /\ out = "#EXT-X-START:TIME-OFFSET=1.5"

\* C14: no serialized line carries a boolean attribute with the default
\* value NO: DEFAULT=NO, AUTOSELECT=NO, FORCED=NO and PRECISE=NO never
\* appear in the output of serialize.
C14_NoDefaultBooleans ==
    Serialized =>
        \A a \in {"DEFAULT=NO", "AUTOSELECT=NO", "FORCED=NO", "PRECISE=NO"} :
            ~HasSubstr(out, a)

\* The attribute names of a serialized attribute list, in the order written.
RECURSIVE WrittenKeys(_)
WrittenKeysStep(t) == IF ~t.ok THEN <<>> ELSE <<t.v.key>> \o WrittenKeys(t.v.rest)
WrittenKeys(s) == IF s = "" THEN <<>> ELSE WrittenKeysStep(AttributePairsNext(s))

\* A written name with its underscores read as hyphens.
RECURSIVE Hyphenated(_, _)
Hyphenated(s, i) ==
    IF i > Len(s) THEN ""
    ELSE (IF Char(s, i) = "_" THEN "-" ELSE Char(s, i)) \o Hyphenated(s, i + 1)

\* No name that is not required stands before a required name in ks.
RequiredFirst(v, ks) ==
    \A i, j \in 1..Len(ks) :
        (i < j /\ Hyphenated(ks[j], 1) \in C4_Required(v))
            => Hyphenated(ks[i], 1) \in C4_Required(v)

\* C15: the serialized line of an attribute-list variant is the prefix, then
\* the required attributes, then the present optional attributes: no
\* optional attribute is written before a required one.
C15_RequiredFirst ==
    (Serialized /\ res.v.variant \in AttrVariants) =>
        /\ StartsWith(out, PrefixOf(res.v.variant))
        /\ RequiredFirst(res.v.variant,
                         WrittenKeys(SplitAt1(out, Len(PrefixOf(res.v.variant)))))

\* No attribute name appears twice in the input list.
DistinctKeys ==
    \A i, j \in 1..Len(body) : i < j => KeyOf(body[i]) # KeyOf(body[j])

\* C16: two accepted lines of an attribute-list variant with the same pairs,
\* no name repeated, in different orders parse to equal values, and the
\* values serialize to the same line.
C16_OrderNormalised ==
    (pc = "reordered" /\ DistinctKeys /\ res.ok /\ alt.res.ok) =>
        /\ alt.res.v = res.v
        /\ TagFmt(alt.res.v) = TagFmt(res.v)

C16_Witness ==
    /\ pc = "reordered" /\ variant = "ExtXStreamInf"
    /\ line = "#EXT-X-STREAM-INF:BANDWIDTH=1,CODECS=\"a,b\",RESOLUTION=2x1"
    /\ alt.line = "#EXT-X-STREAM-INF:RESOLUTION=2x1,CODECS=\"a,b\",BANDWIDTH=1"
    /\ res.ok /\ alt.res = res

\* C17: a duration-bearing tag writes a duration with a sub-second part as a
\* decimal with a fraction and a whole-second duration without one, and the
\* written line parses back to the tag: parse(serialize(v)) = v.
C17_DurationRoundTrip ==
    (pc = "observed" /\ obs.op = "to_string_parse") =>
        /\ obs.back = Ok(obs.v)
        /\ obs.v.variant \in {"ExtInf", "ExtXTargetDuration"} =>
              (HasSubstr(obs.out, ".") <=> obs.v.t.duration.nanos # 0)

\* The length and the offset written in the body of an #EXT-X-BYTERANGE line.
RangeAt == IndexOf(body[1], "@", 1)
RangeLength == IF RangeAt = 0 THEN body[1] ELSE SubSeq(body[1], 1, RangeAt - 1)
RangeOffset == SplitAt1(body[1], RangeAt)

\* A canonical decimal: digits, no leading zero except for 0 itself.
Canonical(d) == Len(d) >= 1 /\ AllDigits(d, 1) /\ (Len(d) = 1 \/ Char(d, 1) # "0")

\* The body is n or n@o with canonical decimals n and o.
CanonicalRange ==
    /\ variant = "ExtXByteRange"
    /\ Canonical(RangeLength)
    /\ RangeAt # 0 => Canonical(RangeOffset)

\* n and o are values of usize.
RangeFits == FitsU64(RangeLength) /\ (RangeAt # 0 => FitsU64(RangeOffset))

\* The line parsed to {length: n, offset: Some(o)}, respectively {length: n,
\* offset: None}, and the serialized tag is the line.
RangeParsed ==
    /\ res.ok /\ res.v.variant = "ExtXByteRange"
    /\ ToString(res.v.t.length) = RangeLength
    /\ IF RangeAt = 0 THEN res.v.t.offset = None
       ELSE res.v.t.offset # None /\ ToString(Unwrap(res.v.t.offset)) = RangeOffset
    /\ Serialized => out = line

\* C18 as stated: for all canonical decimals n and o, #EXT-X-BYTERANGE:n@o
\* parses to {n, Some(o)}, #EXT-X-BYTERANGE:n to {n, None}, and either value
\* serializes to the input line.
C18_ByteRangeAll == (Parsed /\ CanonicalRange) => RangeParsed

\* C18 amended: the same for canonical decimals n and o that are values of
\* usize (at most 18446744073709551615 on a 64-bit target); a larger n or o
\* is refused.
C18_ByteRange ==
    (Parsed /\ CanonicalRange) => IF RangeFits THEN RangeParsed ELSE ~res.ok

C18_Witness ==
    /\ pc = "serialized" /\ line = "#EXT-X-BYTERANGE:10"
    /\ res.ok /\ res.v.t.length = 10 /\ res.v.t.offset = None
    /\ out = line

\* The strings that the formatter of an enumerated type can produce.
Formats(ty) == {EnumFmt(ty, e) : e \in EnumValues(ty)}

\* C19: at each of the seven enumerated types, parse succeeds exactly on the
\* strings that the type's formatter produces, gives a value of the type,
\* and is the inverse of formatting; every other string, a different-case
\* spelling included, fails with InvalidInput.
C19_EnumTokens ==
    /\ pc \in {"token_parsed", "formatted", "format_parsed"} /\ line # "" =>
          /\ res.ok <=> line \in Formats(variant)
          /\ res.ok => res.v \in EnumValues(variant)
          /\ ~res.ok => res.kind = "InvalidInput"
    /\ pc = "token_parsed" /\ line = "" => (~res.ok /\ res.kind = "InvalidInput")
    /\ pc = "format_parsed" => res2 = res

C19_Witness ==
    /\ pc = "token_parsed" /\ variant = "YesOrNo" /\ line = "yes"
    /\ ~res.ok /\ res.kind = "InvalidInput"

\* What the parse calls of the behaviour have returned.
ParseCalls ==
    ({res, res2, alt.res} \cup (IF obs.op = "to_string_parse" THEN {obs.back} ELSE {}))
        \ {NoResult}

\* The cross-field invariants of the variants.
WellFormed(tag) ==
    CASE tag.variant = "ExtXKey" -> (tag.t.method = "None") <=> (tag.t.uri = None)
      [] tag.variant = "ExtXMedia" ->
            /\ IF tag.t.media_type = "ClosedCaptions"
               THEN tag.t.uri # None /\ tag.t.instream_id # None
               ELSE tag.t.instream_id = None
            /\ tag.t.forced # None => tag.t.media_type = "Subtitles"
      [] tag.variant = "ExtXDateRange" -> tag.t.end_on_next # None => tag.t.class # None
      [] tag.variant = "ExtXSessionData" -> tag.t.data.case \in {"Value", "Uri"}
      [] tag.variant = "ExtXStart" -> tag.t.precise \in {"Yes", "No"}
      [] OTHER -> tag.variant \in {TagPrefixes[i].variant : i \in 1..Len(TagPrefixes)}

\* C20: every parse call returns either a tag that satisfies the invariants
\* of its variant, or an error of kind InvalidInput and no tag; whatever the
\* line: a wrong prefix, a malformed scalar, a repeated or missing attribute,
\* a violated cross-field invariant.
C20_AllOrNothing ==
    \A r \in ParseCalls :
        IF r.ok THEN DOMAIN r = {"ok", "v"} /\ WellFormed(r.v)
        ELSE DOMAIN r = {"ok", "kind"} /\ r.kind = "InvalidInput"

C20_Witness ==
    /\ pc = "parsed" /\ line = "#EXT-X-TARGETDURATION:x"
    /\ ~res.ok /\ res.kind = "InvalidInput"

\* The classification of the variants as the specification lists it.
KindTable ==
    [v \in {"ExtM3u", "ExtXVersion"} |-> "Basic"] @@
    [v \in {"ExtInf", "ExtXByteRange", "ExtXDiscontinuity", "ExtXKey", "ExtXMap",
            "ExtXProgramDateTime", "ExtXDateRange"} |-> "MediaSegment"] @@
    [v \in {"ExtXTargetDuration", "ExtXMediaSequence", "ExtXDiscontinuitySequence",
            "ExtXEndList", "ExtXPlaylistType", "ExtXIFramesOnly"} |-> "MediaPlaylist"] @@
    [v \in {"ExtXMedia", "ExtXStreamInf", "ExtXIFrameStreamInf", "ExtXSessionData",
            "ExtXSessionKey"} |-> "MasterPlaylist"] @@
    [v \in {"ExtXIndependentSegments", "ExtXStart"} |-> "MediaOrMasterPlaylist"]

KindCalled == pc = "observed" /\ obs.op = "kind"

\* C21: the kind of a tag is the kind the table gives for its variant,
\* whatever the payload: every variant has a kind, and two tags of one
\* variant have the same kind.
C21_KindOfVariant ==
    /\ DOMAIN KindTable = {TagPrefixes[i].variant : i \in 1..Len(TagPrefixes)}
    /\ \A v \in DOMAIN KindTable : TagKindOf(v) = KindTable[v]
    /\ KindCalled =>
          /\ res.v.variant \in DOMAIN KindTable
          /\ obs.v = KindTable[res.v.variant]

C21_Witness ==
    /\ KindCalled
    /\ res.v.variant = "ExtXStart"
    /\ res.v.t.precise = "Yes"
    /\ obs.v = "MediaOrMasterPlaylist"

\* The ExtInf tag of the duration secs.nanos without a title.
ExtInfOf(secs, nanos) ==
    [variant |-> "ExtInf",
     t |-> [duration |-> [secs |-> secs, nanos |-> nanos], title |-> None]]

\* C22: the line #EXTINF:6.006 parses to 6 s and 6 ms, is written back as
\* 6.006 and parses again to the same duration; the line #EXTINF:6.0 parses
\* to 6 s, is written as 6 without a trailing zero and parses again to the
\* same duration.
C22_ExtInfBoundary ==
    /\ (res # NoResult /\ line = "#EXTINF:6.006") => res = Ok(ExtInfOf(6, 6000000))
    /\ (Serialized /\ line = "#EXTINF:6.006") => out = "#EXTINF:6.006"
    /\ (pc = "reparsed" /\ line = "#EXTINF:6.006") => res2 = res
    /\ (res # NoResult /\ line = "#EXTINF:6.0") => res = Ok(ExtInfOf(6, 0))
    /\ (Serialized /\ line = "#EXTINF:6.0") => out = "#EXTINF:6"
    /\ (pc = "reparsed" /\ line = "#EXTINF:6.0") => res2 = res

C22_Witness ==
    /\ pc = "reparsed"
    /\ line = "#EXTINF:6.006"
    /\ out = "#EXTINF:6.006"
    /\ res2.ok
    /\ res2.v.t.duration = [secs |-> 6, nanos |-> 6000000]

VariantParsed == pc = "observed" /\ obs.op = "parse_variant"

\* C23: a line that the parser of a variant accepts is accepted by the
\* parser of Tag, as the case of that variant with the same value.
C23_DispatchAgrees ==
    (VariantParsed /\ obs.r.ok) => res = Ok([variant |-> obs.variant, t |-> obs.r.v])

\* Every name of ks is a key of a match arm of the parser of the variant v.
KnownKeys(v, ks) == \A i \in 1..Len(ks) : ks[i] \in ArmKeys(ArmsOf(v))

\* C24: every attribute name in the serialized line of an attribute-list
\* variant is a name that the parser of the variant matches.
C24_SameNames ==
    (Serialized /\ res.v.variant \in AttrVariants) =>
        KnownKeys(res.v.variant, WrittenKeys(SplitAt1(out, Len(PrefixOf(res.v.variant)))))

\* C25: the parser of a marker variant accepts a line exactly when the line
\* is the literal of the variant, refuses every other line with
\* InvalidInput, a line that continues after the literal included, and a
\* marker is written as its literal.
C25_MarkerExact ==
    /\ (VariantParsed /\ obs.variant \in MarkerVariants) =>
          /\ obs.r.ok <=> line = PrefixOf(obs.variant)
          /\ ~obs.r.ok => obs.r = Err
    /\ (res # NoResult /\ variant \in MarkerVariants /\ line # PrefixOf(variant)) => res = Err
    /\ (Serialized /\ res.v.variant \in MarkerVariants) => out = PrefixOf(res.v.variant)

C25_Witness ==
    /\ VariantParsed
    /\ obs.variant = "ExtXIFramesOnly"
    /\ line = "#EXT-X-I-FRAMES-ONLYX"
    /\ obs.r = Err

\* The attribute names of the serialized line.
NamesWritten(ks) == {ks[i] : i \in 1..Len(ks)}

\* C26: an #EXT-X-SESSION-KEY line with METHOD=NONE fails, and so does one
\* without a URI; every parsed ExtXSessionKey has the method Aes128 or
\* SampleAes and a uri, and its serialized line has METHOD and URI.
C26_SessionKeyReal ==
    /\ (res # NoResult /\ variant = "ExtXSessionKey" /\ HasItem("METHOD=NONE")) => res = Err
    /\ (res # NoResult /\ variant = "ExtXSessionKey" /\ ~HasKey("URI")) => res = Err
    /\ (res # NoResult /\ variant = "ExtXSessionKey" /\ ~HasKey("METHOD")) => res = Err
    /\ \A t \in TagsOf("ExtXSessionKey") :
          /\ t.method \in {"Aes128", "SampleAes"}
          /\ t.uri \in STRING
    /\ (Serialized /\ res.v.variant = "ExtXSessionKey") =>
          {"METHOD", "URI"} \subseteq
              NamesWritten(WrittenKeys(SplitAt1(out, Len(ExtXSessionKeyPREFIX))))

C26_Witness ==
    /\ pc = "serialized"
    /\ line = "#EXT-X-SESSION-KEY:URI=\"k\",METHOD=SAMPLE-AES"
    /\ res.ok /\ res.v.t.method = "SampleAes" /\ res.v.t.uri = "k"
    /\ out = "#EXT-X-SESSION-KEY:METHOD=SAMPLE-AES,URI=\"k\""

\* The accessor of each variant of MediaSegmentTag.
AccessorOf ==
    [v \in MediaSegmentTagVariants |->
        CASE v = "ExtInf" -> "as_inf"
          [] v = "ExtXByteRange" -> "as_byte_range"
          [] v = "ExtXDateRange" -> "as_date_range"
          [] v = "ExtXDiscontinuity" -> "as_discontinuity"
          [] v = "ExtXKey" -> "as_key"
          [] v = "ExtXMap" -> "as_map"
          [] v = "ExtXProgramDateTime" -> "as_program_date_time"]

AccessorsCalled == pc = "observed" /\ obs.op = "accessors"

\* C27: the variants of Tag whose kind is MediaSegment are the seven
\* variants of MediaSegmentTag, and of the seven accessors of a
\* MediaSegmentTag exactly the one of its variant returns a value, the value
\* the tag holds.
C27_Universes ==
    /\ {TagPrefixes[i].variant : i \in {j \in 1..Len(TagPrefixes) :
            TagKindOf(TagPrefixes[j].variant) = "MediaSegment"}} = MediaSegmentTagVariants
    /\ MediaSegmentTagVariants =
          {"ExtInf", "ExtXByteRange", "ExtXDateRange", "ExtXDiscontinuity", "ExtXKey",
           "ExtXMap", "ExtXProgramDateTime"}
    /\ AccessorsCalled =>
          /\ TagKind(res.v) = "MediaSegment"
          /\ {a \in DOMAIN obs.got : obs.got[a] # None} = {AccessorOf[obs.m.variant]}
          /\ obs.got[AccessorOf[obs.m.variant]] = Some(res.v.t)

C27_Witness ==
    /\ AccessorsCalled
    /\ obs.m.variant = "ExtXMap"
    /\ obs.got.as_map = Some(res.v.t)
    /\ obs.got.as_key = None
====
